---- MODULE Spec2Model ----
(***************************************************************************)
(* Tool-directory resolution of dbrownell_ToolsDirectory.                  *)
(*                                                                         *)
(* The state is a small filesystem below the tools directory (built by     *)
(* MkDir / MkFile) and the record of the last library call made on it.     *)
(* Every library function is an operator translated from its Python        *)
(* source; an action applies it to the current filesystem and stores the   *)
(* arguments together with what the call returned, wrote or raised.        *)
(*                                                                         *)
(* Paths are sequences of names, names are strings.  A generator is        *)
(* modelled by the record [out, err]: the sequence of values it yields     *)
(* and the message of the ValueError that ends it ("" when it ends         *)
(* normally).                                                              *)
(***************************************************************************)
EXTENDS Integers, Sequences, FiniteSets, TLC

VARIABLES
    dirs,       \* the paths that are directories
    files,      \* the paths that are plain files
    listRev,    \* the order in which the filesystem lists a directory
    mode,       \* which family of calls this run makes ("selector", "catalog", "commands",
                \* "shell", "visitor", "activate", "manifest" or "levels")
    call,       \* the last call: its name, arguments and outcome
    contents,   \* the lines of every environment file, by path
    script      \* the script of a shell dialect: its commands, its text and its run

vars == <<dirs, files, listRev, mode, call, contents, script>>

(***************************************************************************)
(* Bounds of the model.                                                    *)
(***************************************************************************)
\* entries below the single tool directory of a "selector" run
MaxSelectorEntries == 3
\* entries (tool directories included) below the tools directory of a "catalog" run
MaxCatalogEntries == 3
\* plain files among the entries
MaxFiles == 1
\* directories below the tools directory of a "commands" run
MaxCommandDirs == 3
\* environment files of a "commands" run
MaxEnvFiles == 2
\* the number of commands of a script
MaxCommands == 2
\* directories below the tools directory of an "activate" run
MaxActivateDirs == 2
\* environment files of an "activate" run
MaxActivateEnvFiles == 1
\* directories below the single tool directory of a "levels" run
MaxLevelDirs == 4

(***************************************************************************)
(* The filesystem.                                                         *)
(***************************************************************************)
ToolsDir == <<"Tools">>

ToolNames == <<"T1", "T2", "T3">>
VersionNames == <<"1.9", "v1.9.0", "1.10">>
OsNames == <<"Linux", "Generic">>
ArchNames == <<"Generic", "x64">>
\* the names a plain file may have: one that coerces to the highest version,
\* one recognized as an OS and as an architecture, and "bin"
FileNames == <<"1.10", "Generic", "bin">>

\* Every name of the model, in the order in which a directory lists them
\* (reversed when listRev).  "linux" differs from the member Linux by case
\* alone.
AllNames == <<"T3", "T1", "T2", "1.9", "v1.9.0", "1.10", "linux", "Linux", "Generic", "x64", "bin">>

Range(s) == {s[i] : i \in DOMAIN s}

RECURSIVE Reverse(_)
Reverse(s) == IF s = <<>> THEN <<>> ELSE Append(Reverse(Tail(s)), Head(s))

Entries == dirs \cup files

\* pathlib: Path.name, Path.parent, Path / name, Path.is_dir(), Path.is_file()
PathName(p) == p[Len(p)]
PathParent(p) == SubSeq(p, 1, Len(p) - 1)
Join(p, n) == Append(p, n)
IsDir(p) == p \in dirs
IsFile(p) == p \in files

\* str(Path)
RECURSIVE PathStr(_)
PathStr(p) == IF p = <<>> THEN "" ELSE PathStr(PathParent(p)) \o "/" \o PathName(p)

(***************************************************************************)
(* Versions (semantic_version.Version, as ToolInfo.py uses it).  A version *)
(* is the triple <<major, minor, patch>>; None is the empty tuple.  The    *)
(* names of the model are dotted numbers, so no version carries a          *)
(* prerelease or build part.                                               *)
(***************************************************************************)
None == <<>>

Digits == "0123456789"
CharAt(s, i) == IF i \in 1..Len(s) THEN SubSeq(s, i, i) ELSE ""
IsDigitAt(s, i) == i <= Len(s) /\ \E d \in 1..Len(Digits) : CharAt(Digits, d) = CharAt(s, i)
DigitAt(s, i) == (CHOOSE d \in 1..Len(Digits) : CharAt(Digits, d) = CharAt(s, i)) - 1

\* the number written by the digits of s from position i on, given the
\* value acc of the digits before i: [val, next]
RECURSIVE ParseNumber(_, _, _)
ParseNumber(s, i, acc) ==
    IF IsDigitAt(s, i)
    THEN ParseNumber(s, i + 1, acc * Len(Digits) + DigitAt(s, i))
    ELSE [val |-> acc, next |-> i]

\* str.removeprefix
RemovePrefix(s, prefix) ==
    IF Len(s) > Len(prefix) /\ SubSeq(s, 1, Len(prefix)) = prefix
    THEN SubSeq(s, Len(prefix) + 1, Len(s))
    ELSE IF s = prefix THEN "" ELSE s

\* the characters of the names, in code-point order
CodePoints == "-.0123456789ABCDEFGHIJKLMNOPQRSTUVWXYZ_abcdefghijklmnopqrstuvwxyz"
Ord(c) == CHOOSE k \in 1..Len(CodePoints) : CharAt(CodePoints, k) = c

\* str.__lt__
RECURSIVE StrLess(_, _)
StrLess(a, b) ==
    IF b = "" THEN FALSE
    ELSE IF a = "" THEN TRUE
    ELSE IF CharAt(a, 1) # CharAt(b, 1) THEN Ord(CharAt(a, 1)) < Ord(CharAt(b, 1))
    ELSE StrLess(RemovePrefix(a, CharAt(a, 1)), RemovePrefix(b, CharAt(b, 1)))

\* Path.iterdir(): the entries of a directory, in listing order (the
\* environment files, whose names are not among AllNames, are listed on the
\* side of "bin")
IterDir(p) ==
    LET Paths(names) == [i \in 1..Len(names) |-> Join(p, names[i])]
        Listed(names) == SelectSeq(names, LAMBDA n : Join(p, n) \in Entries)
        Others(envFiles) ==
            IF envFiles = {} THEN <<>>
            ELSE [i \in 1..Cardinality(envFiles) |->
                    CHOOSE f \in envFiles :
                        Cardinality({g \in envFiles : StrLess(PathName(g), PathName(f))}) = i - 1]
        Ordered(listing) == IF listRev THEN Reverse(listing) ELSE listing
    IN  Ordered(Paths(Listed(AllNames))
                \o Others({f \in DOMAIN contents : PathParent(f) = p}))

\* SemVer.coerce: the leading \d+(\.\d+(\.\d+)?)? of the string, the missing
\* components filled with 0; ValueError (ok = FALSE) when the string does not
\* start with a digit.
Coerce(s) ==
    LET \* the component after the one that ended before position next: the
        \* number behind a "." there, or 0 (and nothing consumed)
        Component(next) ==
            IF CharAt(s, next) = "." /\ IsDigitAt(s, next + 1)
            THEN ParseNumber(s, next + 1, 0)
            ELSE [val |-> 0, next |-> next]
        Patch(major, minor, patch) ==
            [ok |-> TRUE, version |-> <<major.val, minor.val, patch.val>>]
        Minor(major, minor) == Patch(major, minor, Component(minor.next))
        Major(major) == Minor(major, Component(major.next))
    IN  IF ~IsDigitAt(s, 1)
        THEN [ok |-> FALSE, version |-> None]
        ELSE Major(ParseNumber(s, 1, 0))

\* a precedence that compares the major component alone
VersionLess_MajorOnly(a, b) == a[1] < b[1]

\* SemVer.__lt__: precedence of two versions
VersionLess(a, b) ==
    \/ a[1] < b[1]
    \/ a[1] = b[1] /\ a[2] < b[2]
    \/ a[1] = b[1] /\ a[2] = b[2] /\ a[3] < b[3]

\* str(SemVer)
VersionStr(v) == ToString(v[1]) \o "." \o ToString(v[2]) \o "." \o ToString(v[3])

\* list.sort(key=lambda x: x[0], reverse=True) on a list of (version, path)
\* pairs: descending by version, pairs of equal version keep their order.
RECURSIVE InsertDescending(_, _)
InsertDescending(sorted, x) ==
    IF sorted = <<>> THEN <<x>>
    ELSE IF VersionLess(Head(sorted)[1], x[1])
         THEN <<x>> \o sorted
         ELSE <<Head(sorted)>> \o InsertDescending(Tail(sorted), x)

RECURSIVE SortDescending(_)
SortDescending(infos) ==
    IF infos = <<>> THEN <<>>
    ELSE InsertDescending(SortDescending(SubSeq(infos, 1, Len(infos) - 1)), infos[Len(infos)])

\* a dict that keeps the value of the first pair of a key
RECURSIVE Dict_FirstValue(_)
Dict_FirstValue(pairs) ==
    LET Put(d, p) ==
            IF \E i \in DOMAIN d : d[i][1] = p[1]
            THEN d
            ELSE Append(d, p)
    IN  IF pairs = <<>> THEN <<>>
        ELSE Put(Dict_FirstValue(SubSeq(pairs, 1, Len(pairs) - 1)), pairs[Len(pairs)])

\* dict(pairs): one item per key, at the position of the key's first pair,
\* holding the value of its last pair.
RECURSIVE Dict(_)
Dict(pairs) ==
    LET Put(d, p) ==
            IF \E i \in DOMAIN d : d[i][1] = p[1]
            THEN [i \in DOMAIN d |-> IF d[i][1] = p[1] THEN p ELSE d[i]]
            ELSE Append(d, p)
    IN  IF pairs = <<>> THEN <<>>
        ELSE Put(Dict(SubSeq(pairs, 1, Len(pairs) - 1)), pairs[Len(pairs)])

\* dict.get(key): the value, or None
DictGet(d, key) ==
    IF \E i \in DOMAIN d : d[i][1] = key
    THEN d[CHOOSE i \in DOMAIN d : d[i][1] = key][2]
    ELSE None

(***************************************************************************)
(* OperatingSystemType, ArchitectureType and the "Generic" sentinel.  An   *)
(* attribute is a record [kind, name]: a member of one of the two          *)
(* enumerations, the string "Generic", or None.                            *)
(***************************************************************************)
OperatingSystemType(n) == [kind |-> "OperatingSystemType", name |-> n]
ArchitectureType(n) == [kind |-> "ArchitectureType", name |-> n]
Generic == [kind |-> "str", name |-> "Generic"]
NoneType == [kind |-> "None", name |-> ""]

OperatingSystemNames == <<"Linux", "MacOS", "Windows">>
ArchitectureNames == <<"x64", "x86", "ARM64", "ARM">>

\* a lookup that ignores the case of the first letter of "Linux"
OsStringMapGet_IgnoreCase(n) ==
    IF n \in Range(OperatingSystemNames) THEN OperatingSystemType(n)
    ELSE IF n = "linux" THEN OperatingSystemType("Linux")
    ELSE IF n = "Generic" THEN Generic
    ELSE NoneType

\* OperatingSystemType.StringMap().get(name)
OsStringMapGet(n) ==
    IF n \in Range(OperatingSystemNames) THEN OperatingSystemType(n)
    ELSE IF n = "Generic" THEN Generic
    ELSE NoneType

\* ArchitectureType.StringMap().get(name)
ArchStringMapGet(n) ==
    IF n \in Range(ArchitectureNames) THEN ArchitectureType(n)
    ELSE IF n = "Generic" THEN Generic
    ELSE NoneType

(***************************************************************************)
(* Filters.  A version filter is None, "latest" or a version; an OS or     *)
(* architecture filter is None or a member of the enumeration.             *)
(***************************************************************************)
NoFilter == [kind |-> "None", version |-> None]
Latest == [kind |-> "latest", version |-> None]
Pinned(v) == [kind |-> "SemVer", version |-> v]

Yield(items) == [out |-> items, err |-> ""]
Raise(msg) == [out |-> <<>>, err |-> msg]

(***************************************************************************)
(* ToolInfo.py: _GenerateVersionedDirs                                     *)
(***************************************************************************)
\* the pairs of every entry whose name coerces, plain files included (the
\* loop without its is_dir test)
VersionedInfos_AnyEntry(working_dir) ==
    LET Pairs(listing) ==
            [i \in 1..Len(listing) |->
                <<Coerce(RemovePrefix(PathName(listing[i]), "v")).version, listing[i]>>]
    IN  Pairs(SelectSeq(IterDir(working_dir),
                        LAMBDA p : Coerce(RemovePrefix(PathName(p), "v")).ok))

\* the (version, path) pairs of the subdirectories whose name coerces
VersionedInfos(working_dir) ==
    LET Pairs(listing) ==
            [i \in 1..Len(listing) |->
                <<Coerce(RemovePrefix(PathName(listing[i]), "v")).version, listing[i]>>]
    IN  Pairs(SelectSeq(IterDir(working_dir),
                        LAMBDA p : IsDir(p) /\ Coerce(RemovePrefix(PathName(p), "v")).ok))

\* the message without the directory that was searched
VersionNotFoundMsg_NoDirectory(desired_version, tool_name, working_dir) ==
    "No directory found for version '" \o VersionStr(desired_version)
        \o "' for the tool '" \o tool_name \o "'."

VersionNotFoundMsg(desired_version, tool_name, working_dir) ==
    "No directory found for version '" \o VersionStr(desired_version)
        \o "' for the tool '" \o tool_name \o "' in '" \o PathStr(working_dir) \o "'."

\* the version level that selects the highest version when the requested
\* one has no directory
_GenerateVersionedDirs_FallBackToLatest(tool_name, working_dir, dir_filter) ==
    LET Lookup(versioned_infos_dict, desired_version) ==
            Yield(<<[dir |-> DictGet(versioned_infos_dict, desired_version),
                     version |-> desired_version]>>)
        Filtered(versioned_infos_dict) ==
            Lookup(versioned_infos_dict,
                   IF dir_filter.kind = "SemVer"
                      /\ DictGet(versioned_infos_dict, dir_filter.version) # None
                   THEN dir_filter.version
                   ELSE versioned_infos_dict[1][1])
        Select(versioned_infos) ==
            IF versioned_infos = <<>>
            THEN Yield(<<[dir |-> working_dir, version |-> None]>>)
            ELSE IF dir_filter.kind # "None"
                 THEN Filtered(Dict(versioned_infos))
                 ELSE Yield([i \in 1..Len(versioned_infos) |->
                                [dir |-> versioned_infos[i][2], version |-> versioned_infos[i][1]]])
    IN  Select(SortDescending(VersionedInfos(working_dir)))

\* Select: the function after the sort of versioned_infos; Filtered: the
\* branch "dir_filter is not None", given dict(versioned_infos); Lookup: the
\* get of desired_version and what follows it.
_GenerateVersionedDirs(tool_name, working_dir, dir_filter) ==
    LET Found(desired_version, updated_working_dir) ==
            IF updated_working_dir = None
            THEN Raise(VersionNotFoundMsg(desired_version, tool_name, working_dir))
            ELSE Yield(<<[dir |-> updated_working_dir, version |-> desired_version]>>)
        Lookup(versioned_infos_dict, desired_version) ==
            Found(desired_version, DictGet(versioned_infos_dict, desired_version))
        Filtered(versioned_infos_dict) ==
            Lookup(versioned_infos_dict,
                   IF dir_filter.kind = "SemVer"
                   THEN dir_filter.version
                   ELSE versioned_infos_dict[1][1])
        Select(versioned_infos) ==
            IF versioned_infos = <<>>
            THEN Yield(<<[dir |-> working_dir, version |-> None]>>)
            ELSE IF dir_filter.kind # "None"
                 THEN Filtered(Dict(versioned_infos))
                 ELSE Yield([i \in 1..Len(versioned_infos) |->
                                [dir |-> versioned_infos[i][2], version |-> versioned_infos[i][1]]])
    IN  Select(SortDescending(VersionedInfos(working_dir)))

(***************************************************************************)
(* ToolInfo.py: _GenerateOperatingSystemDirs, _GenerateArchitectureDirs    *)
(***************************************************************************)
PlatformNotFoundMsg(filter_name, tool_name, working_dir) ==
    "No directory found for '" \o filter_name
        \o "' for the tool '" \o tool_name \o "' in '" \o PathStr(working_dir) \o "'."

\* os_infos: the recognized subdirectories, as a dict keyed by name (a
\* directory holds a name once, so the dict is the listing itself)
OsInfos(working_dir) ==
    SelectSeq(IterDir(working_dir),
              LAMBDA p : IsDir(p) /\ OsStringMapGet(PathName(p)) # NoneType)

\* os_infos.get(name): the path, or None
InfosGet(infos, n) ==
    IF \E i \in DOMAIN infos : PathName(infos[i]) = n
    THEN infos[CHOOSE i \in DOMAIN infos : PathName(infos[i]) = n]
    ELSE None

\* the OS level that falls back to "Generic" whether or not the caller
\* allows it
_GenerateOperatingSystemDirs_AlwaysGeneric(tool_name, working_dir, dir_filter, allow_generic_operating_system) ==
    LET Selected(info) ==
            IF info = None
            THEN Raise(PlatformNotFoundMsg(dir_filter.name, tool_name, working_dir))
            ELSE Yield(<<[dir |-> info, type |-> OsStringMapGet(PathName(info))]>>)
        Exact(infos, exact) ==
            Selected(IF exact = None THEN InfosGet(infos, "Generic") ELSE exact)
        Select(infos) ==
            IF infos = <<>>
            THEN Yield(<<[dir |-> working_dir, type |-> NoneType]>>)
            ELSE IF dir_filter # NoneType
                 THEN Exact(infos, InfosGet(infos, dir_filter.name))
                 ELSE Yield([i \in 1..Len(infos) |->
                                [dir |-> infos[i], type |-> OsStringMapGet(PathName(infos[i]))]])
    IN  Select(OsInfos(working_dir))

\* Select: the function after the loop that fills os_infos; Exact: the
\* branch "dir_filter is not None", given os_infos.get(dir_filter.name);
\* Selected: the os_info that is yielded, or the raise when there is none.
_GenerateOperatingSystemDirs(tool_name, working_dir, dir_filter, allow_generic_operating_system) ==
    LET Selected(info) ==
            IF info = None
            THEN Raise(PlatformNotFoundMsg(dir_filter.name, tool_name, working_dir))
            ELSE Yield(<<[dir |-> info, type |-> OsStringMapGet(PathName(info))]>>)
        Exact(infos, exact) ==
            Selected(IF exact = None /\ allow_generic_operating_system
                        THEN InfosGet(infos, "Generic")
                        ELSE exact)
        Select(infos) ==
            IF infos = <<>>
            THEN Yield(<<[dir |-> working_dir, type |-> NoneType]>>)
            ELSE IF dir_filter # NoneType
                 THEN Exact(infos, InfosGet(infos, dir_filter.name))
                 ELSE Yield([i \in 1..Len(infos) |->
                                [dir |-> infos[i], type |-> OsStringMapGet(PathName(infos[i]))]])
    IN  Select(OsInfos(working_dir))

ArchInfos(working_dir) ==
    SelectSeq(IterDir(working_dir),
              LAMBDA p : IsDir(p) /\ ArchStringMapGet(PathName(p)) # NoneType)

_GenerateArchitectureDirs(tool_name, working_dir, dir_filter, allow_generic_architecture) ==
    LET Selected(info) ==
            IF info = None
            THEN Raise(PlatformNotFoundMsg(dir_filter.name, tool_name, working_dir))
            ELSE Yield(<<[dir |-> info, type |-> ArchStringMapGet(PathName(info))]>>)
        Exact(infos, exact) ==
            Selected(IF exact = None /\ allow_generic_architecture
                        THEN InfosGet(infos, "Generic")
                        ELSE exact)
        Select(infos) ==
            IF infos = <<>>
            THEN Yield(<<[dir |-> working_dir, type |-> NoneType]>>)
            ELSE IF dir_filter # NoneType
                 THEN Exact(infos, InfosGet(infos, dir_filter.name))
                 ELSE Yield([i \in 1..Len(infos) |->
                                [dir |-> infos[i], type |-> ArchStringMapGet(PathName(infos[i]))]])
    IN  Select(ArchInfos(working_dir))

(***************************************************************************)
(* ToolInfo.py: GenerateToolInfos                                          *)
(***************************************************************************)
\* A for loop over a generator whose body is itself a generator: bodies[i] is
\* what the body does for the i-th value; the loop yields what the bodies
\* yield, in turn, up to the first raise.
RECURSIVE ForEach(_, _)
ForEach(bodies, i) ==
    LET Then(rest) == [out |-> bodies[i].out \o rest.out, err |-> rest.err]
    IN  IF i > Len(bodies) THEN Yield(<<>>)
        ELSE IF bodies[i].err # "" THEN bodies[i]
        ELSE Then(ForEach(bodies, i + 1))

\* for x in gen: body, when gen itself may raise before it yields
For(gen, bodies) == IF gen.err # "" THEN Raise(gen.err) ELSE ForEach(bodies, 1)

ToolInfo(name, version, operating_system, architecture, root_directory, versioned_directory, binary_directory) ==
    [name |-> name, version |-> version, operating_system |-> operating_system,
     architecture |-> architecture, root_directory |-> root_directory,
     versioned_directory |-> versioned_directory, binary_directory |-> binary_directory]

\* bin_dir chosen by exists() instead of is_dir(): a plain file named "bin"
\* is taken too
BinDir_AnyEntry(architecture_dir) ==
    LET potential_bin_dir == Join(architecture_dir, "bin")
    IN  IF potential_bin_dir \in Entries THEN potential_bin_dir ELSE architecture_dir

\* bin_dir: the "bin" subdirectory of the selected directory when there is one
BinDir(architecture_dir) ==
    LET potential_bin_dir == Join(architecture_dir, "bin")
    IN  IF IsDir(potential_bin_dir) THEN potential_bin_dir ELSE architecture_dir

\* the loops that hand the directory of the OS level, and not the one of the
\* architecture level, to ToolInfo as versioned_directory
GenerateToolInfos_OsDirectory(tool_dir, version_filter, operating_system_filter, architecture_filter, allow_generic_operating_system, allow_generic_architecture) ==
    LET tool_name == PathName(tool_dir)
        Innermost(v, o, a) ==
            Yield(<<ToolInfo(tool_name, v.version, o.type, a.type, tool_dir, o.dir, BinDir(a.dir))>>)
        Architectures(v, o, gen) ==
            For(gen, [i \in DOMAIN gen.out |-> Innermost(v, o, gen.out[i])])
        PerOperatingSystem(v, o) ==
            Architectures(v, o, _GenerateArchitectureDirs(tool_name, o.dir, architecture_filter,
                                                          allow_generic_architecture))
        OperatingSystems(v, gen) ==
            For(gen, [i \in DOMAIN gen.out |-> PerOperatingSystem(v, gen.out[i])])
        PerVersion(v) ==
            OperatingSystems(v, _GenerateOperatingSystemDirs(tool_name, v.dir,
                                                             operating_system_filter,
                                                             allow_generic_operating_system))
        Versions(gen) ==
            For(gen, [i \in DOMAIN gen.out |-> PerVersion(gen.out[i])])
    IN  Versions(_GenerateVersionedDirs(tool_name, tool_dir, version_filter))

\* the loops that go back one level after a miss: when the architecture level
\* misses inside the selected OS directory, the "Generic" directory next to
\* it is tried in its place
GenerateToolInfos_Backtracking(tool_dir, version_filter, operating_system_filter, architecture_filter, allow_generic_operating_system, allow_generic_architecture) ==
    LET tool_name == PathName(tool_dir)
        Innermost(v, o, a) ==
            Yield(<<ToolInfo(tool_name, v.version, o.type, a.type, tool_dir, a.dir, BinDir(a.dir))>>)
        Architectures(v, o, gen) ==
            For(gen, [i \in DOMAIN gen.out |-> Innermost(v, o, gen.out[i])])
        Inside(v, o) ==
            Architectures(v, o, _GenerateArchitectureDirs(tool_name, o.dir, architecture_filter,
                                                          allow_generic_architecture))
        Sibling(v) == [dir |-> Join(v.dir, "Generic"), type |-> Generic]
        Retried(v, o, first) ==
            IF first.err # "" /\ o.dir # Sibling(v).dir /\ IsDir(Sibling(v).dir)
            THEN Inside(v, Sibling(v))
            ELSE first
        PerOperatingSystem(v, o) == Retried(v, o, Inside(v, o))
        OperatingSystems(v, gen) ==
            For(gen, [i \in DOMAIN gen.out |-> PerOperatingSystem(v, gen.out[i])])
        PerVersion(v) ==
            OperatingSystems(v, _GenerateOperatingSystemDirs(tool_name, v.dir,
                                                             operating_system_filter,
                                                             allow_generic_operating_system))
        Versions(gen) ==
            For(gen, [i \in DOMAIN gen.out |-> PerVersion(gen.out[i])])
    IN  Versions(_GenerateVersionedDirs(tool_name, tool_dir, version_filter))

GenerateToolInfos(tool_dir, version_filter, operating_system_filter, architecture_filter, allow_generic_operating_system, allow_generic_architecture) ==
    LET tool_name == PathName(tool_dir)
        \* the body of the innermost loop
        Innermost(v, o, a) ==
            Yield(<<ToolInfo(tool_name, v.version, o.type, a.type, tool_dir, a.dir, BinDir(a.dir))>>)
        \* the three loops, each over the generator gen of its level
        Architectures(v, o, gen) ==
            For(gen, [i \in DOMAIN gen.out |-> Innermost(v, o, gen.out[i])])
        PerOperatingSystem(v, o) ==
            Architectures(v, o, _GenerateArchitectureDirs(tool_name, o.dir, architecture_filter,
                                                          allow_generic_architecture))
        OperatingSystems(v, gen) ==
            For(gen, [i \in DOMAIN gen.out |-> PerOperatingSystem(v, gen.out[i])])
        PerVersion(v) ==
            OperatingSystems(v, _GenerateOperatingSystemDirs(tool_name, v.dir,
                                                             operating_system_filter,
                                                             allow_generic_operating_system))
        Versions(gen) ==
            For(gen, [i \in DOMAIN gen.out |-> PerVersion(gen.out[i])])
    IN  Versions(_GenerateVersionedDirs(tool_name, tool_dir, version_filter))

(***************************************************************************)
(* DoneManager (dbrownell_Common), as far as the callers depend on it: the *)
(* text written to the sink, and the result, which the first error makes   *)
(* negative and nothing resets.                                            *)
(***************************************************************************)
NewDoneManager == [sink |-> <<>>, result |-> 0]

WriteError(dm, text) ==
    [sink |-> Append(dm.sink, [level |-> "error", text |-> text]),
     result |-> IF dm.result >= 0 THEN -1 ELSE dm.result]

WriteVerbose(dm, text) ==
    [sink |-> Append(dm.sink, [level |-> "verbose", text |-> text]),
     result |-> dm.result]

ExcludedMsg(tool_name) == "'" \o tool_name \o "' has been explicitly excluded.\n"
NotIncludedMsg(tool_name) == "'" \o tool_name \o "' has not been explicitly included.\n"

(***************************************************************************)
(* ToolInfo.py: GetAllToolInfos                                            *)
(***************************************************************************)
\* tool_versions is a set of <<name, version>> pairs, one per pinned tool
IsPinned(tool_versions, tool_name) == \E tv \in tool_versions : tv[1] = tool_name
PinnedVersion(tool_versions, tool_name) == (CHOOSE tv \in tool_versions : tv[1] = tool_name)[2]

\* tool_versions.get(tool_name), without the default "latest"
VersionFilterOf_NoDefault(tool_versions, tool_name) ==
    IF IsPinned(tool_versions, tool_name)
    THEN Pinned(PinnedVersion(tool_versions, tool_name))
    ELSE NoFilter

\* tool_versions.get(tool_name) or "latest"
VersionFilterOf(tool_versions, tool_name) ==
    IF IsPinned(tool_versions, tool_name)
    THEN Pinned(PinnedVersion(tool_versions, tool_name))
    ELSE Latest

NoConfigurationsMsg(tool_name, tool_directory) ==
    "No valid configurations found for the tool '" \o tool_name \o "' in '"
        \o PathStr(tool_directory) \o "'.\n"

\* the loop body that, like Lib.GetToolInfos, appends a tool only while the
\* DoneManager's result is still 0
GetAllToolInfosStep_StickyResult(st, tool_directory, include_tools, exclude_tools, tool_versions, operating_system, architecture, allow_generic_operating_systems, allow_generic_architectures) ==
    LET tool_name == PathName(tool_directory)
        tried == [st EXCEPT !.processed = Append(@, tool_name)]
        \* from the try statement on, gen being the GenerateToolInfos call
        Resolved(gen) ==
            IF gen.err # ""
            THEN [tried EXCEPT !.dm = WriteError(@, gen.err)]
            ELSE IF gen.out = <<>>
            THEN [tried EXCEPT !.dm = WriteError(@, NoConfigurationsMsg(tool_name, tool_directory))]
            ELSE IF Len(gen.out) # 1
            THEN [tried EXCEPT !.raised = "AssertionError"]
            ELSE IF st.dm.result # 0 THEN tried
            ELSE [tried EXCEPT !.results = Append(@, gen.out[1])]
    IN  IF st.raised # "" THEN st
        ELSE IF ~IsDir(tool_directory) THEN st
        ELSE IF tool_name \in exclude_tools
             THEN [st EXCEPT !.dm = WriteVerbose(@, ExcludedMsg(tool_name))]
        ELSE IF include_tools # {} /\ tool_name \notin include_tools
             THEN [st EXCEPT !.dm = WriteVerbose(@, NotIncludedMsg(tool_name))]
        ELSE Resolved(GenerateToolInfos(tool_directory,
                                        VersionFilterOf(tool_versions, tool_name),
                                        operating_system, architecture,
                                        allow_generic_operating_systems,
                                        allow_generic_architectures))

\* One iteration of the loop over tools_directory.iterdir().  st holds the
\* results so far, the DoneManager, the names of the tools handed to
\* GenerateToolInfos, and the exception that left the function, if any.
GetAllToolInfosStep(st, tool_directory, include_tools, exclude_tools, tool_versions, operating_system, architecture, allow_generic_operating_systems, allow_generic_architectures) ==
    LET tool_name == PathName(tool_directory)
        tried == [st EXCEPT !.processed = Append(@, tool_name)]
        \* from the try statement on, gen being the GenerateToolInfos call
        Resolved(gen) ==
            IF gen.err # ""
            THEN [tried EXCEPT !.dm = WriteError(@, gen.err)]
            ELSE IF gen.out = <<>>
            THEN [tried EXCEPT !.dm = WriteError(@, NoConfigurationsMsg(tool_name, tool_directory))]
            ELSE IF Len(gen.out) # 1
            THEN [tried EXCEPT !.raised = "AssertionError"]
            ELSE [tried EXCEPT !.results = Append(@, gen.out[1])]
    IN  IF st.raised # "" THEN st
        ELSE IF ~IsDir(tool_directory) THEN st
        ELSE IF tool_name \in exclude_tools
             THEN [st EXCEPT !.dm = WriteVerbose(@, ExcludedMsg(tool_name))]
        ELSE IF include_tools # {} /\ tool_name \notin include_tools
             THEN [st EXCEPT !.dm = WriteVerbose(@, NotIncludedMsg(tool_name))]
        ELSE Resolved(GenerateToolInfos(tool_directory,
                                        VersionFilterOf(tool_versions, tool_name),
                                        operating_system, architecture,
                                        allow_generic_operating_systems,
                                        allow_generic_architectures))

RECURSIVE GetAllToolInfosLoop(_, _, _, _, _, _, _, _, _)
GetAllToolInfosLoop(listing, n, include_tools, exclude_tools, tool_versions, operating_system, architecture, allow_generic_operating_systems, allow_generic_architectures) ==
    IF n = 0
    THEN [results |-> <<>>, dm |-> NewDoneManager, processed |-> <<>>, raised |-> ""]
    ELSE GetAllToolInfosStep(
            GetAllToolInfosLoop(listing, n - 1, include_tools, exclude_tools, tool_versions,
                                operating_system, architecture,
                                allow_generic_operating_systems, allow_generic_architectures),
            listing[n], include_tools, exclude_tools, tool_versions,
            operating_system, architecture,
            allow_generic_operating_systems, allow_generic_architectures)

GetAllToolInfos(tools_directory, include_tools, exclude_tools, tool_versions, operating_system, architecture, allow_generic_operating_systems, allow_generic_architectures) ==
    GetAllToolInfosLoop(IterDir(tools_directory), Len(IterDir(tools_directory)),
                        include_tools, exclude_tools, tool_versions,
                        operating_system, architecture,
                        allow_generic_operating_systems, allow_generic_architectures)

(***************************************************************************)
(* Lib.py: GetToolInfos and its helpers.  A helper returns the directory   *)
(* it selected and the DoneManager after what it wrote.                    *)
(***************************************************************************)
LibToolInfo(name, root_directory, versioned_directory, binary_directory) ==
    [name |-> name, root_directory |-> root_directory,
     versioned_directory |-> versioned_directory, binary_directory |-> binary_directory]

\* the version helper that takes the lowest version, and not the highest,
\* for a tool that is not pinned
_ApplyVersionDir_Lowest(dm, tool_name, tool_directory, tool_versions) ==
    LET Found(desired_version, updated_working_dir) ==
            IF updated_working_dir # None
            THEN [dir |-> updated_working_dir, dm |-> dm]
            ELSE [dir |-> tool_directory,
                  dm |-> WriteError(dm, VersionNotFoundMsg(desired_version, tool_name, tool_directory) \o "\n")]
        Lookup(working_versions, desired_version) ==
            Found(desired_version, DictGet(working_versions, desired_version))
        Desired(working_versions) ==
            Lookup(working_versions,
                   IF IsPinned(tool_versions, tool_name)
                   THEN PinnedVersion(tool_versions, tool_name)
                   ELSE working_versions[Len(working_versions)][1])
        Select(working_version_dirs) ==
            IF working_version_dirs = <<>>
            THEN [dir |-> tool_directory, dm |-> dm]
            ELSE Desired(Dict(working_version_dirs))
    IN  Select(SortDescending(VersionedInfos(tool_directory)))

_ApplyVersionDir(dm, tool_name, tool_directory, tool_versions) ==
    LET Found(desired_version, updated_working_dir) ==
            IF updated_working_dir # None
            THEN [dir |-> updated_working_dir, dm |-> dm]
            ELSE [dir |-> tool_directory,
                  dm |-> WriteError(dm, VersionNotFoundMsg(desired_version, tool_name, tool_directory) \o "\n")]
        Lookup(working_versions, desired_version) ==
            Found(desired_version, DictGet(working_versions, desired_version))
        Desired(working_versions) ==
            Lookup(working_versions,
                   IF IsPinned(tool_versions, tool_name)
                   THEN PinnedVersion(tool_versions, tool_name)
                   ELSE working_versions[1][1])
        Select(working_version_dirs) ==
            IF working_version_dirs = <<>>
            THEN [dir |-> tool_directory, dm |-> dm]
            ELSE Desired(Dict(working_version_dirs))
    IN  Select(SortDescending(VersionedInfos(tool_directory)))

_ApplyOperatingSystemDir(dm, tool_name, tool_directory, operating_system, no_generic_operating_systems) ==
    LET Select(operating_system_dirs) ==
            IF operating_system_dirs = <<>>
            THEN [dir |-> tool_directory, dm |-> dm]
            ELSE IF InfosGet(operating_system_dirs, operating_system.name) # None
                 THEN [dir |-> InfosGet(operating_system_dirs, operating_system.name), dm |-> dm]
            ELSE IF ~no_generic_operating_systems /\ InfosGet(operating_system_dirs, "Generic") # None
                 THEN [dir |-> InfosGet(operating_system_dirs, "Generic"), dm |-> dm]
            ELSE [dir |-> tool_directory,
                  dm |-> WriteError(dm, PlatformNotFoundMsg(operating_system.name, tool_name, tool_directory) \o "\n")]
    IN  Select(OsInfos(tool_directory))

_ApplyArchitectureDir(dm, tool_name, tool_directory, architecture, no_generic_architectures) ==
    LET Select(architecture_dirs) ==
            IF architecture_dirs = <<>>
            THEN [dir |-> tool_directory, dm |-> dm]
            ELSE IF InfosGet(architecture_dirs, architecture.name) # None
                 THEN [dir |-> InfosGet(architecture_dirs, architecture.name), dm |-> dm]
            ELSE IF ~no_generic_architectures /\ InfosGet(architecture_dirs, "Generic") # None
                 THEN [dir |-> InfosGet(architecture_dirs, "Generic"), dm |-> dm]
            ELSE [dir |-> tool_directory,
                  dm |-> WriteError(dm, PlatformNotFoundMsg(architecture.name, tool_name, tool_directory) \o "\n")]
    IN  Select(ArchInfos(tool_directory))

_ApplyBinDir(dm, tool_directory) ==
    IF IsDir(Join(tool_directory, "bin")) THEN Join(tool_directory, "bin") ELSE tool_directory

\* One iteration of the loop of GetToolInfos.
GetToolInfosStep(st, root_directory, include_tools, exclude_tools, tool_versions, operating_system, architecture, no_generic_operating_systems, no_generic_architectures) ==
    LET tool_name == PathName(root_directory)
        \* v, o, a: the directory and the DoneManager after the version, the
        \* OS and the architecture helper
        AfterArchitecture(a) ==
            IF a.dm.result # 0
            THEN [st EXCEPT !.processed = Append(@, tool_name), !.dm = a.dm]
            ELSE [st EXCEPT !.processed = Append(@, tool_name), !.dm = a.dm,
                            !.results = Append(@, LibToolInfo(tool_name, root_directory, a.dir,
                                                              _ApplyBinDir(a.dm, a.dir)))]
        AfterOperatingSystem(o) ==
            AfterArchitecture(_ApplyArchitectureDir(o.dm, tool_name, o.dir, architecture,
                                                    no_generic_architectures))
        AfterVersion(v) ==
            AfterOperatingSystem(_ApplyOperatingSystemDir(v.dm, tool_name, v.dir, operating_system,
                                                          no_generic_operating_systems))
    IN  IF ~IsDir(root_directory) THEN st
        ELSE IF tool_name \in exclude_tools
             THEN [st EXCEPT !.dm = WriteVerbose(@, ExcludedMsg(tool_name))]
        ELSE IF include_tools # {} /\ tool_name \notin include_tools
             THEN [st EXCEPT !.dm = WriteVerbose(@, NotIncludedMsg(tool_name))]
        ELSE AfterVersion(_ApplyVersionDir(st.dm, tool_name, root_directory, tool_versions))

RECURSIVE GetToolInfosLoop(_, _, _, _, _, _, _, _, _)
GetToolInfosLoop(listing, n, include_tools, exclude_tools, tool_versions, operating_system, architecture, no_generic_operating_systems, no_generic_architectures) ==
    IF n = 0
    THEN [results |-> <<>>, dm |-> NewDoneManager, processed |-> <<>>, raised |-> ""]
    ELSE GetToolInfosStep(
            GetToolInfosLoop(listing, n - 1, include_tools, exclude_tools, tool_versions,
                             operating_system, architecture,
                             no_generic_operating_systems, no_generic_architectures),
            listing[n], include_tools, exclude_tools, tool_versions,
            operating_system, architecture,
            no_generic_operating_systems, no_generic_architectures)

GetToolInfos(tools_directory, include_tools, exclude_tools, tool_versions, operating_system, architecture, no_generic_operating_systems, no_generic_architectures) ==
    GetToolInfosLoop(IterDir(tools_directory), Len(IterDir(tools_directory)),
                     include_tools, exclude_tools, tool_versions,
                     operating_system, architecture,
                     no_generic_operating_systems, no_generic_architectures)

(***************************************************************************)
(* ToolInfo.py: ToolInfo.GeneratePotentialEnvFiles                         *)
(***************************************************************************)
\* Path.relative_to, for a path below base
RelativeTo(p, base) == SubSeq(p, Len(base) + 1, Len(p))

ApplyStandardSuffixes(potential_suffixes) == Append(potential_suffixes, "")

ApplyVersionSuffixes(self, potential_suffixes) ==
    IF self.version = None THEN potential_suffixes
    ELSE Append(potential_suffixes, "-v" \o VersionStr(self.version))

\* the combinations taken over the slice [1:] instead of [1:-1]: the suffix
\* just appended is combined with itself too
ApplyAttributeSuffixes_WholeSlice(suffix, potential_suffixes) ==
    LET appended == Append(potential_suffixes, "-" \o suffix)
    IN  appended \o [i \in 1..(Len(appended) - 1) |-> appended[i + 1] \o "-" \o suffix]

\* append "-<suffix>", then every earlier non-empty suffix followed by it
\* (the slice [1:-1] of the list after the append)
ApplyAttributeSuffixes(suffix, potential_suffixes) ==
    LET appended == Append(potential_suffixes, "-" \o suffix)
    IN  appended \o [i \in 1..(Len(appended) - 2) |-> appended[i + 1] \o "-" \o suffix]

ApplyOperatingSystemSuffixes(self, potential_suffixes) ==
    IF self.operating_system = NoneType THEN potential_suffixes
    ELSE ApplyAttributeSuffixes(self.operating_system.name, potential_suffixes)

ApplyArchitectureSuffixes(self, potential_suffixes) ==
    IF self.architecture = NoneType THEN potential_suffixes
    ELSE ApplyAttributeSuffixes(self.architecture.name, potential_suffixes)

\* the files <root>/<name><suffix><file_extension> of one tier; IndexError
\* when relative_paths has no entry at the tier's offset
EnvFileTier(self, relative, relative_path_offset, potential_suffixes, file_extension) ==
    IF relative_path_offset > Len(relative)
    THEN Raise("IndexError")
    ELSE Yield([i \in 1..Len(potential_suffixes) |->
                   Join(self.root_directory \o SubSeq(relative, 1, relative_path_offset),
                        self.name \o potential_suffixes[i] \o file_extension)])

GeneratePotentialEnvFiles(self, file_extension) ==
    LET relative == RelativeTo(self.versioned_directory, self.root_directory)
        hasVersion == self.version # None
        hasOs == self.operating_system # NoneType
        hasArch == self.architecture # NoneType
        versionOffset == IF hasVersion THEN 1 ELSE 0
        osOffset == versionOffset + (IF hasOs THEN 1 ELSE 0)
        archOffset == osOffset + (IF hasArch THEN 1 ELSE 0)
        rootTier ==
            EnvFileTier(self, relative, 0,
                ApplyArchitectureSuffixes(self,
                    ApplyOperatingSystemSuffixes(self,
                        ApplyVersionSuffixes(self, ApplyStandardSuffixes(<<>>)))),
                file_extension)
        versionTier ==
            IF ~hasVersion THEN Yield(<<>>)
            ELSE EnvFileTier(self, relative, versionOffset,
                    ApplyArchitectureSuffixes(self,
                        ApplyOperatingSystemSuffixes(self, ApplyStandardSuffixes(<<>>))),
                    file_extension)
        osTier ==
            IF ~hasOs THEN Yield(<<>>)
            ELSE EnvFileTier(self, relative, osOffset,
                    ApplyArchitectureSuffixes(self, ApplyStandardSuffixes(<<>>)),
                    file_extension)
        archTier ==
            IF ~hasArch THEN Yield(<<>>)
            ELSE EnvFileTier(self, relative, archOffset, ApplyStandardSuffixes(<<>>),
                             file_extension)
    IN  IF Len(relative) + 1 > 4
        THEN Raise("AssertionError")
        ELSE ForEach(<<rootTier, versionTier, osTier, archTier>>, 1)

(***************************************************************************)
(* ManifestGenerator.py: GenerateManifest                                  *)
(***************************************************************************)
\* the names in the order in which they were inserted
Sorted_InsertionOrder(names) == names

\* sorted(names)
RECURSIVE Sorted(_)
Sorted(names) ==
    LET First(least) == <<names[least]>> \o Sorted(SelectSeq(names, LAMBDA n : n # names[least]))
    IN  IF names = <<>> THEN <<>>
        ELSE First(CHOOSE i \in DOMAIN names : \A j \in DOMAIN names : ~StrLess(names[j], names[i]))

ToolConfiguration(version, operating_system, architecture, versioned_directory, binary_directory, env_files) ==
    [version |-> version, operating_system |-> operating_system, architecture |-> architecture,
     versioned_directory |-> versioned_directory, binary_directory |-> binary_directory,
     env_files |-> env_files]

\* the configuration of one ToolInfo: its paths relative to tools_directory
\* and the candidate environment files that exist
ConfigurationOf(tool_info, tools_directory) ==
    LET Relative(existing_env_files) ==
            [i \in 1..Len(existing_env_files) |->
                RelativeTo(existing_env_files[i], tools_directory)]
    IN  ToolConfiguration(tool_info.version, tool_info.operating_system, tool_info.architecture,
                          RelativeTo(tool_info.versioned_directory, tools_directory),
                          RelativeTo(tool_info.binary_directory, tools_directory),
                          Relative(SelectSeq(GeneratePotentialEnvFiles(tool_info, ".env").out,
                                             IsFile)))

\* the loop body that tests the include set before the exclude set, so
\* that an included name is processed even when it is excluded too
GenerateManifestStep_IncludeFirst(st, tool_directory, include_tools, exclude_tools) ==
    LET tool_name == PathName(tool_directory)
        tried == [st EXCEPT !.processed = Append(@, tool_name)]
        \* from the GenerateToolInfos call on, gen being that call
        Resolved(gen) ==
            IF gen.err # ""
            THEN [tried EXCEPT !.raised = "ValueError"]
            ELSE IF gen.out = <<>>
            THEN [tried EXCEPT !.dm = WriteVerbose(@, "No configurations found for '" \o tool_name \o "'.\n")]
            ELSE [tried EXCEPT !.groups = Append(@, <<tool_name, gen.out>>)]
    IN  IF st.raised # "" THEN st
        ELSE IF ~IsDir(tool_directory) THEN st
        ELSE IF include_tools # {} /\ tool_name \notin include_tools
             THEN [st EXCEPT !.dm = WriteVerbose(@, NotIncludedMsg(tool_name))]
        ELSE IF include_tools = {} /\ tool_name \in exclude_tools
             THEN [st EXCEPT !.dm = WriteVerbose(@, ExcludedMsg(tool_name))]
        ELSE Resolved(GenerateToolInfos(tool_directory, NoFilter, NoneType, NoneType, TRUE, TRUE))

\* One iteration of the first loop of GenerateManifest: st.groups is
\* tool_groups, as the sequence of its (name, tool_infos) items.
GenerateManifestStep(st, tool_directory, include_tools, exclude_tools) ==
    LET tool_name == PathName(tool_directory)
        tried == [st EXCEPT !.processed = Append(@, tool_name)]
        \* from the GenerateToolInfos call on, gen being that call
        Resolved(gen) ==
            IF gen.err # ""
            THEN [tried EXCEPT !.raised = "ValueError"]
            ELSE IF gen.out = <<>>
            THEN [tried EXCEPT !.dm = WriteVerbose(@, "No configurations found for '" \o tool_name \o "'.\n")]
            ELSE [tried EXCEPT !.groups = Append(@, <<tool_name, gen.out>>)]
    IN  IF st.raised # "" THEN st
        ELSE IF ~IsDir(tool_directory) THEN st
        ELSE IF tool_name \in exclude_tools
             THEN [st EXCEPT !.dm = WriteVerbose(@, ExcludedMsg(tool_name))]
        ELSE IF include_tools # {} /\ tool_name \notin include_tools
             THEN [st EXCEPT !.dm = WriteVerbose(@, NotIncludedMsg(tool_name))]
        ELSE Resolved(GenerateToolInfos(tool_directory, NoFilter, NoneType, NoneType, TRUE, TRUE))

RECURSIVE GenerateManifestLoop(_, _, _, _)
GenerateManifestLoop(listing, n, include_tools, exclude_tools) ==
    IF n = 0
    THEN [groups |-> <<>>, dm |-> NewDoneManager, processed |-> <<>>, raised |-> ""]
    ELSE GenerateManifestStep(GenerateManifestLoop(listing, n - 1, include_tools, exclude_tools),
                              listing[n], include_tools, exclude_tools)

GenerateManifest(tools_directory, include_tools, exclude_tools) ==
    LET \* one ToolManifestEntry
        Entry(tool_name, tool_infos) ==
            [name |-> tool_name,
             configurations |->
                 [k \in DOMAIN tool_infos |-> ConfigurationOf(tool_infos[k], tools_directory)]]
        \* the second loop, over names = sorted(tool_groups.keys())
        Build(st, names) ==
            [tools |-> IF st.raised # "" THEN <<>>
                       ELSE [i \in DOMAIN names |->
                                Entry(names[i], DictGet(st.groups, names[i]))],
             dm |-> st.dm, processed |-> st.processed, raised |-> st.raised]
        \* st: the state after the first loop
        Grouped(st) == Build(st, Sorted([i \in DOMAIN st.groups |-> st.groups[i][1]]))
    IN  Grouped(GenerateManifestLoop(IterDir(tools_directory), Len(IterDir(tools_directory)),
                                     include_tools, exclude_tools))

(***************************************************************************)
(* Shell/Commands.py: the commands CreateShellCommands emits               *)
(***************************************************************************)
EchoOff == [type |-> "EchoOff"]
Augment(name, value_or_values) ==
    [type |-> "Augment", name |-> name, value_or_values |-> value_or_values,
     append_values |-> FALSE]
Set(name, value_or_values) ==
    [type |-> "Set", name |-> name, value_or_values |-> value_or_values]
Raw(value) == [type |-> "Raw", value |-> value]

\* A field that is None in Python is left out of the record; With sets a
\* field of a command.
IsNone(command, field) == field \notin DOMAIN command
With(command, field, value) ==
    [f \in DOMAIN command \cup {field} |-> IF f = field THEN value ELSE command[f]]

Message(value) == [type |-> "Message", value |-> value]
Call(command_line) ==
    [type |-> "Call", command_line |-> command_line, exit_on_error |-> TRUE,
     exit_via_return_statement |-> FALSE]
Execute(command_line) ==
    [type |-> "Execute", command_line |-> command_line, exit_on_error |-> TRUE,
     exit_via_return_statement |-> FALSE]
Exit == [type |-> "Exit", pause_on_success |-> FALSE, pause_on_error |-> FALSE]
ExitOnError == [type |-> "ExitOnError", use_return_statement |-> FALSE]
PersistError(variable_name) == [type |-> "PersistError", variable_name |-> variable_name]
PushDirectory == [type |-> "PushDirectory"]
PopDirectory == [type |-> "PopDirectory"]

\* Set.EnumValues / Augment.EnumValues, for a value that is a str or None
EnumValues(command) ==
    IF IsNone(command, "value_or_values") THEN <<>> ELSE <<command.value_or_values>>

(***************************************************************************)
(* dotenv_values (python-dotenv), for the lines of the model: KEY=VALUE    *)
(* with an unquoted value, the empty line, and a line of two words that is *)
(* no statement.  The parser logs one warning for every line it cannot     *)
(* parse and goes on.                                                      *)
(***************************************************************************)
\* str.find, 1-based: the first position of character c in s at or after i,
\* 0 when there is none
RECURSIVE IndexOf(_, _, _)
IndexOf(s, c, i) ==
    IF i > Len(s) THEN 0
    ELSE IF CharAt(s, i) = c THEN i
    ELSE IndexOf(s, c, i + 1)

\* the binding of one line: [kind, key, value]
ParseBinding(line) ==
    LET Binding(eq) ==
            IF eq = 0
            THEN [kind |-> "error", key |-> "", value |-> ""]
            ELSE [kind |-> "binding", key |-> SubSeq(line, 1, eq - 1),
                  value |-> SubSeq(line, eq + 1, Len(line))]
    IN  IF line = ""
        THEN [kind |-> "blank", key |-> "", value |-> ""]
        ELSE Binding(IndexOf(line, "=", 1))

\* what the logger has received after the file was parsed: one line for
\* every line that is no statement
RECURSIVE LoggerContent(_, _)
LoggerContent(lines, n) ==
    IF n = 0 THEN ""
    ELSE LoggerContent(lines, n - 1)
         \o (IF ParseBinding(lines[n]).kind = "error"
             THEN "python-dotenv could not parse statement starting at line "
                      \o ToString(n) \o "\n"
             ELSE "")

\* the values of the file, as the (key, value) items of a dict, and the
\* content of the logger
DotenvValues(lines) ==
    LET Bindings(parsed) ==
            SelectSeq(parsed, LAMBDA b : b.kind = "binding")
        Items(bindings) ==
            Dict([i \in DOMAIN bindings |-> <<bindings[i].key, bindings[i].value>>])
    IN  [values |-> Items(Bindings([i \in DOMAIN lines |-> ParseBinding(lines[i])])),
         logger_content |-> LoggerContent(lines, Len(lines))]

(***************************************************************************)
(* CreateShellCommands.py: CreateShellCommands                             *)
(***************************************************************************)
\* os.path.sep
PathSep == "/"

\* Path.read_text, as lines
ReadText(p) == IF p \in DOMAIN contents THEN contents[p] ELSE <<>>

\* str.rstrip, of the line ends the logger writes
RECURSIVE RStrip(_)
RStrip(text) ==
    IF text # "" /\ CharAt(text, Len(text)) = "\n"
    THEN RStrip(SubSeq(text, 1, Len(text) - 1))
    ELSE text

\* relative_path_re.sub(RelativePathReplacement, value), from position i on:
\* every "." that is followed by "/" or "\" and not preceded by "." is
\* replaced, with the separator, by str(env_filename.parent) + os.path.sep
RECURSIVE RelativePathSub(_, _, _)
RelativePathSub(value, env_filename, i) ==
    IF i > Len(value) THEN ""
    ELSE IF /\ CharAt(value, i) = "."
            /\ CharAt(value, i + 1) \in {"/", "\\"}
            /\ CharAt(value, i - 1) # "."
         THEN PathStr(PathParent(env_filename)) \o PathSep
                  \o RelativePathSub(value, env_filename, i + 2)
         ELSE CharAt(value, i) \o RelativePathSub(value, env_filename, i + 1)

\* an update that keeps the value of a key that is already set
DictUpdate_KeepFirst(d, items) ==
    d \o SelectSeq(Dict(items), LAMBDA item : \A i \in DOMAIN d : d[i][1] # item[1])

\* dict.update: the keys of d keep their place, new keys are appended
DictUpdate(d, items) == Dict(d \o items)

\* the error that is written for an environment file that raised
EnvFileErrorMsg(potential_env_file, ex) ==
    "Unable to process the environment file '" \o PathStr(potential_env_file)
        \o "': " \o ex \o "\n"

\* a step that commits the lines that did parse of a file that raised
EnvFileStep_CommitParsed(acc, potential_env_file) ==
    LET Commit(start, this_env_config) ==
            [start EXCEPT !.env_config =
                DictUpdate(@, [i \in DOMAIN this_env_config |->
                                  <<this_env_config[i][1],
                                    RelativePathSub(this_env_config[i][2], potential_env_file, 1)>>])]
        Loaded(parsed) ==
            IF parsed.logger_content # ""
            THEN Commit([acc EXCEPT !.dm =
                            WriteError(@, EnvFileErrorMsg(potential_env_file,
                                                          RStrip(parsed.logger_content)))],
                        parsed.values)
            ELSE Commit(acc, parsed.values)
    IN  IF ~IsFile(potential_env_file) THEN acc
        ELSE Loaded(DotenvValues(ReadText(potential_env_file)))

\* One iteration of the loop over the potential env files of a tool: acc is
\* [env_config, dm].  Loaded: from the dotenv_values call on; Commit: the
\* placeholders populated and the results committed.
EnvFileStep(acc, potential_env_file) ==
    LET Commit(this_env_config) ==
            [acc EXCEPT !.env_config =
                DictUpdate(@, [i \in DOMAIN this_env_config |->
                                  <<this_env_config[i][1],
                                    RelativePathSub(this_env_config[i][2], potential_env_file, 1)>>])]
        Loaded(parsed) ==
            IF parsed.logger_content # ""
            THEN [acc EXCEPT !.dm =
                    WriteError(@, EnvFileErrorMsg(potential_env_file,
                                                  RStrip(parsed.logger_content)))]
            ELSE Commit(parsed.values)
    IN  IF ~IsFile(potential_env_file) THEN acc
        ELSE Loaded(DotenvValues(ReadText(potential_env_file)))

RECURSIVE EnvFilesLoop(_, _, _)
EnvFilesLoop(start, potential_env_files, n) ==
    IF n = 0 THEN start
    ELSE EnvFileStep(EnvFilesLoop(start, potential_env_files, n - 1), potential_env_files[n])

\* a step that closes the commands of every tool with Raw("\n")
CreateShellCommandsStep_AlwaysRaw(st, tool_info) ==
    LET augmented == Append(st.commands, Augment("PATH", PathStr(tool_info.binary_directory)))
        Finish(acc, raised) ==
            [commands |->
                IF raised = ""
                THEN augmented
                         \o [i \in DOMAIN acc.env_config |->
                                Set(acc.env_config[i][1], acc.env_config[i][2])]
                         \o <<Raw("\n")>>
                ELSE augmented,
             dm |-> acc.dm,
             raised |-> raised]
        Over(gen) ==
            Finish(EnvFilesLoop([env_config |-> <<>>, dm |-> st.dm], gen.out, Len(gen.out)),
                   gen.err)
    IN  IF st.raised # "" THEN st
        ELSE Over(GeneratePotentialEnvFiles(tool_info, ".env"))

\* One iteration of the loop over tool_infos: st is [commands, dm, raised].
\* Over: the loop over the generator gen of the tool's potential env files;
\* Finish: what follows that loop.
CreateShellCommandsStep(st, tool_info) ==
    LET augmented == Append(st.commands, Augment("PATH", PathStr(tool_info.binary_directory)))
        Finish(acc, raised) ==
            [commands |->
                IF raised = "" /\ acc.env_config # <<>>
                THEN augmented
                         \o [i \in DOMAIN acc.env_config |->
                                Set(acc.env_config[i][1], acc.env_config[i][2])]
                         \o <<Raw("\n")>>
                ELSE augmented,
             dm |-> acc.dm,
             raised |-> raised]
        Over(gen) ==
            Finish(EnvFilesLoop([env_config |-> <<>>, dm |-> st.dm], gen.out, Len(gen.out)),
                   gen.err)
    IN  IF st.raised # "" THEN st
        ELSE Over(GeneratePotentialEnvFiles(tool_info, ".env"))

RECURSIVE CreateShellCommandsLoop(_, _)
CreateShellCommandsLoop(tool_infos, n) ==
    IF n = 0
    THEN [commands |-> <<EchoOff>>, dm |-> NewDoneManager, raised |-> ""]
    ELSE CreateShellCommandsStep(CreateShellCommandsLoop(tool_infos, n - 1), tool_infos[n])

CreateShellCommands(tool_infos) == CreateShellCommandsLoop(tool_infos, Len(tool_infos))

(***************************************************************************)
(* str operations the visitors use.                                        *)
(***************************************************************************)
StartsWithAt(s, i, prefix) ==
    i + Len(prefix) - 1 <= Len(s) /\ SubSeq(s, i, i + Len(prefix) - 1) = prefix

\* str.find, 1-based: the first position at or after i where sub occurs in
\* s, 0 when there is none
RECURSIVE Find(_, _, _)
Find(s, sub, i) ==
    IF i + Len(sub) - 1 > Len(s) THEN 0
    ELSE IF StartsWithAt(s, i, sub) THEN i
    ELSE Find(s, sub, i + 1)

Contains(s, sub) == Find(s, sub, 1) # 0

EndsWith(s, suffix) ==
    Len(suffix) <= Len(s) /\ SubSeq(s, Len(s) - Len(suffix) + 1, Len(s)) = suffix

\* str.removesuffix
RemoveSuffix(s, suffix) ==
    IF suffix # "" /\ EndsWith(s, suffix) THEN SubSeq(s, 1, Len(s) - Len(suffix)) ELSE s

\* str.replace, from position i on
RECURSIVE ReplaceFrom(_, _, _, _)
ReplaceFrom(s, source, dest, i) ==
    IF i > Len(s) THEN ""
    ELSE IF StartsWithAt(s, i, source)
         THEN dest \o ReplaceFrom(s, source, dest, i + Len(source))
         ELSE SubSeq(s, i, i) \o ReplaceFrom(s, source, dest, i + 1)
Replace(s, source, dest) == ReplaceFrom(s, source, dest, 1)

\* str.split(sep), from position i on
RECURSIVE SplitFrom(_, _, _)
SplitFrom(s, sep, i) ==
    LET Cut(at) ==
            IF at = 0 THEN <<SubSeq(s, i, Len(s))>>
            ELSE <<SubSeq(s, i, at - 1)>> \o SplitFrom(s, sep, at + Len(sep))
    IN  Cut(Find(s, sep, i))
Split(s, sep) == SplitFrom(s, sep, 1)

\* sep.join(parts)
RECURSIVE JoinStr(_, _)
JoinStr(parts, sep) ==
    IF parts = <<>> THEN ""
    ELSE IF Len(parts) = 1 THEN parts[1]
    ELSE parts[1] \o sep \o JoinStr(Tail(parts), sep)

\* not s.strip()
IsBlank(s) == \A i \in 1..Len(s) : SubSeq(s, i, i) \in {" ", "\t", "\n", "\r"}

\* str.lower, of ASCII letters
UpperCase == "ABCDEFGHIJKLMNOPQRSTUVWXYZ"
LowerCase == "abcdefghijklmnopqrstuvwxyz"
RECURSIVE LowerFrom(_, _)
LowerFrom(s, i) ==
    LET Letter(c, at) == IF at = 0 THEN c ELSE SubSeq(LowerCase, at, at)
    IN  IF i > Len(s) THEN ""
        ELSE Letter(SubSeq(s, i, i), Find(UpperCase, SubSeq(s, i, i), 1)) \o LowerFrom(s, i + 1)
Lower(s) == LowerFrom(s, 1)

\* every (source, dest) of a substitution lookup applied in turn
RECURSIVE Substitute(_, _)
Substitute(line, lookup) ==
    IF lookup = <<>> THEN line
    ELSE Substitute(Replace(line, lookup[1][1], lookup[1][2]), Tail(lookup))

\* the result of a visitor: None is the empty sequence, a text is <<text>>
Text(t) == <<t>>

(***************************************************************************)
(* Shell/BashCommandVisitor.py                                             *)
(***************************************************************************)
\* _message_substitution_lookup, without its entry for the grave accent, which
\* no message of the model holds
BashMessageSubstitutionLookup == <<<<"$", "\\$">>, <<"\"", "\\\"">>>>

BashOnExitOnError(command) ==
    LET variable_name ==
            IF ~IsNone(command, "variable_name") /\ command.variable_name # ""
            THEN "$" \o command.variable_name
            ELSE "$?"
        keyword == IF command.use_return_statement THEN "return" ELSE "exit"
        return_code ==
            IF ~IsNone(command, "return_code") /\ command.return_code # 0
            THEN ToString(command.return_code)
            ELSE "$error_code"
    IN  Text("error_code=" \o variable_name \o "\n"
             \o "if [[ $error_code -ne 0 ]]; then\n"
             \o "    " \o keyword \o " " \o return_code \o "\n"
             \o "fi\n")

BashOnMessage(command) ==
    LET Echo(command_line) ==
            IF IsBlank(command_line) THEN "echo \"\""
            ELSE "echo \"" \o Substitute(command_line, BashMessageSubstitutionLookup) \o "\""
        Output(lines) == [i \in DOMAIN lines |-> Echo(lines[i])]
    IN  Text(JoinStr(Output(Split(command.value, "\n")), " && ") \o "\n")

BashOnCall(command) ==
    Text("source " \o command.command_line \o "\n"
         \o (IF command.exit_on_error
             THEN BashOnExitOnError([ExitOnError EXCEPT !.use_return_statement =
                                        command.exit_via_return_statement])[1]
             ELSE ""))

BashOnExecute(command) ==
    Text(command.command_line \o "\n"
         \o (IF command.exit_on_error
             THEN BashOnExitOnError([ExitOnError EXCEPT !.use_return_statement =
                                        command.exit_via_return_statement])[1]
             ELSE ""))

BashOnSet(command) ==
    IF IsNone(command, "value_or_values")
    THEN Text("unset " \o command.name \o "\n")
    ELSE Text("export " \o command.name \o "=\""
              \o RemoveSuffix(RemovePrefix(JoinStr(EnumValues(command), ":"), "\""), "\"")
              \o "\"\n")

BashOnAugment(command) ==
    LET Add(value) ==
            IF command.append_values
            THEN value \o ":${" \o command.name \o "}"
            ELSE "${" \o command.name \o "}:" \o value
        Statement(value) ==
            "[[ \":${" \o command.name \o "}:\" != *\":" \o value \o ":\"* ]] && "
                \o "export " \o command.name \o "=\"" \o Add(value) \o "\""
        Statements(values) == [i \in DOMAIN values |-> Statement(values[i])]
    IN  Text(JoinStr(Statements(EnumValues(command)), "\n") \o "\n")

BashOnExit(command) ==
    LET Pause(test) ==
            "if [[ $? " \o test \o " 0 ]]; then\n"
                \o "    read -p \"Press [Enter] to continue\"\n"
                \o "fi"
    IN  Text((IF command.pause_on_success THEN Pause("-eq") ELSE "") \o "\n"
             \o (IF command.pause_on_error THEN Pause("-ne") ELSE "") \o "\n"
             \o "return "
             \o (IF ~IsNone(command, "return_code") THEN ToString(command.return_code) ELSE "0")
             \o "\n")

BashOnEchoOff(command) == Text("set +x\n\n")

BashOnPersistError(command) == Text(command.variable_name \o "=$?\n")

BashOnPushDirectory(command) ==
    Text("pushd "
         \o (IF IsNone(command, "value")
             THEN "$( cd \"$( dirname \"${BASH_SOURCE[0]}\" )\" > /dev/null 2>&1 && pwd )"
             ELSE "\"" \o PathStr(command.value) \o "\"")
         \o " > /dev/null\n")

BashOnPopDirectory(command) == Text("popd > /dev/null\n")

BashOnRaw(command) == Text(RemoveSuffix(command.value, "\n") \o "\n")

(***************************************************************************)
(* Shell/BatchCommandVisitor.py.  unique_id is the value of uuid.uuid4()   *)
(* with the dashes removed.                                                *)
(***************************************************************************)
BatchMessageSubstitutionLookup ==
    <<<<"%", "%%">>, <<"&", "^&">>, <<"<", "^<">>, <<">", "^>">>, <<"|", "^|">>,
      <<",", "^,">>, <<";", "^;">>, <<"(", "^(">>, <<")", "^)">>, <<"[", "^[">>,
      <<"]", "^]">>>>

BatchOnExitOnError(command) ==
    LET variable_name ==
            IF ~IsNone(command, "variable_name") /\ command.variable_name # ""
            THEN command.variable_name
            ELSE "ERRORLEVEL"
    IN  Text("if %" \o variable_name \o "% NEQ 0 (exit /B "
             \o (IF ~IsNone(command, "return_code")
                 THEN ToString(command.return_code)
                 ELSE "%" \o variable_name \o "%")
             \o ")")

BatchOnMessage(command) ==
    LET Echo(command_line) ==
            IF IsBlank(command_line) THEN "echo. "
            ELSE "echo "
                 \o Replace(Substitute(Replace(command_line, "^", "__caret_placeholder__"),
                                       BatchMessageSubstitutionLookup),
                            "__caret_placeholder__", "^")
        Output(lines) == [i \in DOMAIN lines |-> Echo(lines[i])]
    IN  Text(JoinStr(Output(Split(command.value, "\n")), " && "))

BatchOnCall(command) ==
    Text("call " \o command.command_line
         \o (IF command.exit_on_error
             THEN "\n" \o BatchOnExitOnError(ExitOnError)[1] \o "\n"
             ELSE ""))

BatchOnExecute(command) ==
    LET first == Lower(Split(command.command_line, " ")[1])
    IN  Text((IF EndsWith(first, ".bat") \/ EndsWith(first, ".cmd")
              THEN "cmd /c " \o command.command_line
              ELSE command.command_line)
             \o (IF command.exit_on_error
                 THEN "\n" \o BatchOnExitOnError(ExitOnError)[1] \o "\n"
                 ELSE ""))

BatchOnSet(command) ==
    IF IsNone(command, "value_or_values")
    THEN Text("SET " \o command.name \o "=")
    ELSE Text("SET " \o command.name \o "=" \o JoinStr(EnumValues(command), ";"))

BatchOnAugment(command, unique_id) ==
    LET Add(value) ==
            IF command.append_values
            THEN value \o ";%" \o command.name \o "%"
            ELSE "%" \o command.name \o "%;" \o value
        Statement(value) ==
            "REM " \o value \o "\n"
                \o "echo \";%" \o command.name \o "%;\" | findstr /C:\";" \o value \o ";\" >nul\n"
                \o "if %ERRORLEVEL% EQ 0 goto skip_" \o unique_id \o "\n"
                \o "\n"
                \o "SET " \o command.name \o "=" \o Add(value) \o "\n"
                \o "\n"
                \o ":skip_" \o unique_id \o "\n"
                \o "\n"
        Statements(values) == [i \in DOMAIN values |-> Statement(values[i])]
    IN  Text(JoinStr(Statements(EnumValues(command)), ""))

BatchOnExit(command) ==
    Text((IF command.pause_on_success THEN "if %ERRORLEVEL% EQ 0 (pause)" ELSE "") \o "\n"
         \o (IF command.pause_on_error THEN "if %ERRORLEVEL% NEQ 0 (pause)" ELSE "") \o "\n"
         \o "exit /B "
         \o (IF ~IsNone(command, "return_code") THEN ToString(command.return_code) ELSE "0")
         \o "\n")

BatchOnEchoOff(command) == Text("@echo off")

BatchOnPersistError(command) == Text("SET " \o command.variable_name \o "=%ERRORLEVEL%")

BatchOnPushDirectory(command) ==
    Text("pushd \""
         \o (IF IsNone(command, "value")
             THEN "%~dp0"
             ELSE PathStr(command.value))
         \o "\"")

BatchOnPopDirectory(command) == Text("popd")

BatchOnRaw(command) == Text(command.value)

(***************************************************************************)
(* Shell/PowerShellCommandVisitor.py                                       *)
(***************************************************************************)
\* _message_substitution_lookup escapes the grave accent, "$" and the double
\* quote with a grave accent; no message of the model holds one of the three
PowerShellMessageSubstitutionLookup == <<>>

PowerShellOnExitOnError(command) ==
    LET variable_name ==
            IF ~IsNone(command, "variable_name") /\ command.variable_name # ""
            THEN "$" \o command.variable_name
            ELSE "$LASTEXITCODE"
        exit_keyword == IF command.use_return_statement THEN "return" ELSE "exit"
        return_code ==
            IF ~IsNone(command, "return_code")
            THEN ToString(command.return_code)
            ELSE "$error_code"
    IN  Text("$error_code = " \o variable_name \o "\n"
             \o "if ($error_code -ne 0) {\n"
             \o "    " \o exit_keyword \o " " \o return_code \o "\n"
             \o "}\n")

PowerShellOnMessage(command) ==
    LET WriteHost(command_line) ==
            IF IsBlank(command_line) THEN "Write-Host \"\""
            ELSE "Write-Host \""
                 \o Substitute(command_line, PowerShellMessageSubstitutionLookup) \o "\""
        Output(lines) == [i \in DOMAIN lines |-> WriteHost(lines[i])]
    IN  Text(JoinStr(Output(Split(command.value, "\n")), "; ") \o "\n")

PowerShellOnCall(command) ==
    Text(". " \o command.command_line \o "\n"
         \o (IF command.exit_on_error
             THEN PowerShellOnExitOnError([ExitOnError EXCEPT !.use_return_statement =
                                              command.exit_via_return_statement])[1]
             ELSE ""))

PowerShellOnExecute(command) ==
    Text("& " \o command.command_line \o "\n"
         \o (IF command.exit_on_error
             THEN PowerShellOnExitOnError([ExitOnError EXCEPT !.use_return_statement =
                                              command.exit_via_return_statement])[1]
             ELSE ""))

PowerShellOnSet(command) ==
    IF IsNone(command, "value_or_values")
    THEN Text("Remove-Item Env:" \o command.name \o " -ErrorAction SilentlyContinue\n")
    ELSE Text("$env:" \o command.name \o " = \""
              \o RemoveSuffix(RemovePrefix(JoinStr(EnumValues(command), ";"), "\""), "\"")
              \o "\"\n")

PowerShellOnAugment(command) ==
    LET Add(value) ==
            IF command.append_values
            THEN "$env:" \o command.name \o " = \"$env:" \o command.name \o ";" \o value \o "\""
            ELSE "$env:" \o command.name \o " = \"" \o value \o ";$env:" \o command.name \o "\""
        Statement(value) ==
            "if (-not $env:" \o command.name \o " -or \";$env:" \o command.name
                \o ";\" -notlike \"*;" \o value \o ";*\") {\n"
                \o "    " \o Add(value) \o "\n"
                \o "}\n"
        Statements(values) == [i \in DOMAIN values |-> Statement(values[i])]
    IN  Text(JoinStr(Statements(EnumValues(command)), ""))

PowerShellOnExit(command) ==
    LET Pause(test) ==
            "if ($LASTEXITCODE " \o test \o " 0) {\n"
                \o "    Read-Host \"Press [Enter] to continue\"\n"
                \o "}"
    IN  Text((IF command.pause_on_success THEN Pause("-eq") ELSE "") \o "\n"
             \o (IF command.pause_on_error THEN Pause("-ne") ELSE "") \o "\n"
             \o "exit "
             \o (IF ~IsNone(command, "return_code") THEN ToString(command.return_code) ELSE "0")
             \o "\n")

\* PowerShell does not echo commands by default: None
PowerShellOnEchoOff(command) == <<>>

PowerShellOnPersistError(command) == Text("$" \o command.variable_name \o " = $LASTEXITCODE\n")

PowerShellOnPushDirectory(command) ==
    IF IsNone(command, "value")
    THEN Text("Push-Location $PSScriptRoot\n")
    ELSE Text("Push-Location \"" \o PathStr(command.value) \o "\"\n")

PowerShellOnPopDirectory(command) == Text("Pop-Location\n")

PowerShellOnRaw(command) == Text(RemoveSuffix(command.value, "\n") \o "\n")

(***************************************************************************)
(* Shell/CommandVisitor.py: Accept, for the visitor of a dialect           *)
(***************************************************************************)
Dialects == {"Bash", "Batch", "PowerShell"}

BashAccept(command) ==
    CASE command.type = "Message" -> BashOnMessage(command)
      [] command.type = "Call" -> BashOnCall(command)
      [] command.type = "Execute" -> BashOnExecute(command)
      [] command.type = "Set" -> BashOnSet(command)
      [] command.type = "Augment" -> BashOnAugment(command)
      [] command.type = "Exit" -> BashOnExit(command)
      [] command.type = "ExitOnError" -> BashOnExitOnError(command)
      [] command.type = "EchoOff" -> BashOnEchoOff(command)
      [] command.type = "PersistError" -> BashOnPersistError(command)
      [] command.type = "PushDirectory" -> BashOnPushDirectory(command)
      [] command.type = "PopDirectory" -> BashOnPopDirectory(command)
      [] command.type = "Raw" -> BashOnRaw(command)

BatchAccept(command, unique_id) ==
    CASE command.type = "Message" -> BatchOnMessage(command)
      [] command.type = "Call" -> BatchOnCall(command)
      [] command.type = "Execute" -> BatchOnExecute(command)
      [] command.type = "Set" -> BatchOnSet(command)
      [] command.type = "Augment" -> BatchOnAugment(command, unique_id)
      [] command.type = "Exit" -> BatchOnExit(command)
      [] command.type = "ExitOnError" -> BatchOnExitOnError(command)
      [] command.type = "EchoOff" -> BatchOnEchoOff(command)
      [] command.type = "PersistError" -> BatchOnPersistError(command)
      [] command.type = "PushDirectory" -> BatchOnPushDirectory(command)
      [] command.type = "PopDirectory" -> BatchOnPopDirectory(command)
      [] command.type = "Raw" -> BatchOnRaw(command)

PowerShellAccept(command) ==
    CASE command.type = "Message" -> PowerShellOnMessage(command)
      [] command.type = "Call" -> PowerShellOnCall(command)
      [] command.type = "Execute" -> PowerShellOnExecute(command)
      [] command.type = "Set" -> PowerShellOnSet(command)
      [] command.type = "Augment" -> PowerShellOnAugment(command)
      [] command.type = "Exit" -> PowerShellOnExit(command)
      [] command.type = "ExitOnError" -> PowerShellOnExitOnError(command)
      [] command.type = "EchoOff" -> PowerShellOnEchoOff(command)
      [] command.type = "PersistError" -> PowerShellOnPersistError(command)
      [] command.type = "PushDirectory" -> PowerShellOnPushDirectory(command)
      [] command.type = "PopDirectory" -> PowerShellOnPopDirectory(command)
      [] command.type = "Raw" -> PowerShellOnRaw(command)

Accept(dialect, command, unique_id) ==
    CASE dialect = "Bash" -> BashAccept(command)
      [] dialect = "Batch" -> BatchAccept(command, unique_id)
      [] dialect = "PowerShell" -> PowerShellAccept(command)

\* a dispatcher that binds EchoOff and PopDirectory to each other's handler
Dispatcher_HandlersExchanged ==
    <<<<"Message", "OnMessage">>,
      <<"Call", "OnCall">>,
      <<"Execute", "OnExecute">>,
      <<"Set", "OnSet">>,
      <<"Augment", "OnAugment">>,
      <<"Exit", "OnExit">>,
      <<"ExitOnError", "OnExitOnError">>,
      <<"EchoOff", "OnPopDirectory">>,
      <<"PersistError", "OnPersistError">>,
      <<"PushDirectory", "OnPushDirectory">>,
      <<"PopDirectory", "OnEchoOff">>,
      <<"Raw", "OnRaw">>>>

\* CommandVisitor.__init__: _dispatcher, from the class of a command to the
\* handler bound to it, in the order of the source
Dispatcher ==
    <<<<"Message", "OnMessage">>,
      <<"Call", "OnCall">>,
      <<"Execute", "OnExecute">>,
      <<"Set", "OnSet">>,
      <<"Augment", "OnAugment">>,
      <<"Exit", "OnExit">>,
      <<"ExitOnError", "OnExitOnError">>,
      <<"EchoOff", "OnEchoOff">>,
      <<"PersistError", "OnPersistError">>,
      <<"PushDirectory", "OnPushDirectory">>,
      <<"PopDirectory", "OnPopDirectory">>,
      <<"Raw", "OnRaw">>>>

\* self._dispatcher.get(type(command)): the handler, or None (the empty
\* sequence) when the class is no key of the dispatcher
RECURSIVE DispatcherGetFrom(_, _)
DispatcherGetFrom(entries, command_type) ==
    IF entries = <<>> THEN <<>>
    ELSE IF entries[1][1] = command_type THEN <<entries[1][2]>>
    ELSE DispatcherGetFrom(Tail(entries), command_type)

DispatcherGet(command_type) == DispatcherGetFrom(Dispatcher, command_type)

\* handler(command): the method of that name of the visitor of the dialect
Invoke(dialect, handler, command, unique_id) ==
    CASE handler = "OnMessage" ->
            (CASE dialect = "Bash" -> BashOnMessage(command)
               [] dialect = "Batch" -> BatchOnMessage(command)
               [] dialect = "PowerShell" -> PowerShellOnMessage(command))
      [] handler = "OnCall" ->
            (CASE dialect = "Bash" -> BashOnCall(command)
               [] dialect = "Batch" -> BatchOnCall(command)
               [] dialect = "PowerShell" -> PowerShellOnCall(command))
      [] handler = "OnExecute" ->
            (CASE dialect = "Bash" -> BashOnExecute(command)
               [] dialect = "Batch" -> BatchOnExecute(command)
               [] dialect = "PowerShell" -> PowerShellOnExecute(command))
      [] handler = "OnSet" ->
            (CASE dialect = "Bash" -> BashOnSet(command)
               [] dialect = "Batch" -> BatchOnSet(command)
               [] dialect = "PowerShell" -> PowerShellOnSet(command))
      [] handler = "OnAugment" ->
            (CASE dialect = "Bash" -> BashOnAugment(command)
               [] dialect = "Batch" -> BatchOnAugment(command, unique_id)
               [] dialect = "PowerShell" -> PowerShellOnAugment(command))
      [] handler = "OnExit" ->
            (CASE dialect = "Bash" -> BashOnExit(command)
               [] dialect = "Batch" -> BatchOnExit(command)
               [] dialect = "PowerShell" -> PowerShellOnExit(command))
      [] handler = "OnExitOnError" ->
            (CASE dialect = "Bash" -> BashOnExitOnError(command)
               [] dialect = "Batch" -> BatchOnExitOnError(command)
               [] dialect = "PowerShell" -> PowerShellOnExitOnError(command))
      [] handler = "OnEchoOff" ->
            (CASE dialect = "Bash" -> BashOnEchoOff(command)
               [] dialect = "Batch" -> BatchOnEchoOff(command)
               [] dialect = "PowerShell" -> PowerShellOnEchoOff(command))
      [] handler = "OnPersistError" ->
            (CASE dialect = "Bash" -> BashOnPersistError(command)
               [] dialect = "Batch" -> BatchOnPersistError(command)
               [] dialect = "PowerShell" -> PowerShellOnPersistError(command))
      [] handler = "OnPushDirectory" ->
            (CASE dialect = "Bash" -> BashOnPushDirectory(command)
               [] dialect = "Batch" -> BatchOnPushDirectory(command)
               [] dialect = "PowerShell" -> PowerShellOnPushDirectory(command))
      [] handler = "OnPopDirectory" ->
            (CASE dialect = "Bash" -> BashOnPopDirectory(command)
               [] dialect = "Batch" -> BatchOnPopDirectory(command)
               [] dialect = "PowerShell" -> PowerShellOnPopDirectory(command))
      [] handler = "OnRaw" ->
            (CASE dialect = "Bash" -> BashOnRaw(command)
               [] dialect = "Batch" -> BatchOnRaw(command)
               [] dialect = "PowerShell" -> PowerShellOnRaw(command))

\* CommandVisitor.Accept, with what it did: the handlers it called, in order,
\* what it returned, and the message of the TypeError it raised ("" when it
\* raised none).  The class of a command is its field type.
NoHandlerMsg(class_name) == "No handler for command type: '" \o class_name \o "'"

AcceptCommand(dialect, command, unique_id) ==
    LET handler == DispatcherGet(command.type)
    IN  IF handler = <<>>
        THEN [handlers |-> <<>>, result |-> <<>>, raised |-> NoHandlerMsg(command.type)]
        ELSE [handlers |-> handler,
              result |-> Invoke(dialect, handler[1], command, unique_id),
              raised |-> ""]

(***************************************************************************)
(* Running a script.  The state of a run is [env, status, done, code]: the *)
(* variables that are set, the status of the last statement ($? /          *)
(* ERRORLEVEL / $LASTEXITCODE), and how the script ended ("running",       *)
(* "exit", "return", or "error" for a statement the shell rejects) with    *)
(* which code.  Only the statements the visitors render are read.          *)
(***************************************************************************)
Get(env, name) == IF name \in DOMAIN env THEN env[name] ELSE ""
Put(env, name, value) ==
    [n \in DOMAIN env \cup {name} |-> IF n = name THEN value ELSE env[n]]
Del(env, name) == [n \in DOMAIN env \ {name} |-> env[n]]

\* A line read against a pattern: the literal texts parts[1], ..., parts[n]
\* with one hole between two of them; a last part "" lets the last hole run
\* to the end of the line.  The result is [ok, holes].
NoMatch == [ok |-> FALSE, holes |-> <<>>]
RECURSIVE MatchHoles(_, _, _, _)
MatchHoles(line, parts, k, i) ==
    LET Rest(at, m) ==
            IF m.ok THEN [ok |-> TRUE, holes |-> <<SubSeq(line, i, at - 1)>> \o m.holes]
            ELSE NoMatch
        Upto(at) ==
            IF at = 0 THEN NoMatch
            ELSE Rest(at, MatchHoles(line, parts, k + 1, at + Len(parts[k])))
    IN  IF k > Len(parts)
        THEN [ok |-> i = Len(line) + 1, holes |-> <<>>]
        ELSE IF k = Len(parts)
        THEN IF parts[k] = ""
             THEN [ok |-> TRUE, holes |-> <<SubSeq(line, i, Len(line))>>]
             ELSE IF EndsWith(line, parts[k]) /\ Len(line) - Len(parts[k]) + 1 >= i
             THEN [ok |-> TRUE, holes |-> <<SubSeq(line, i, Len(line) - Len(parts[k]))>>]
             ELSE NoMatch
        ELSE Upto(Find(line, parts[k], i))
Match(line, parts) ==
    IF StartsWithAt(line, 1, parts[1])
    THEN MatchHoles(line, parts, 2, Len(parts[1]) + 1)
    ELSE NoMatch

RECURSIVE LStrip(_)
LStrip(s) == IF s # "" /\ SubSeq(s, 1, 1) = " " THEN LStrip(SubSeq(s, 2, Len(s))) ELSE s

IdentifierChars == "ABCDEFGHIJKLMNOPQRSTUVWXYZabcdefghijklmnopqrstuvwxyz0123456789_"
IsIdentifier(s) ==
    s # "" /\ \A i \in 1..Len(s) : Find(IdentifierChars, SubSeq(s, i, i), 1) # 0
\* the position after the identifier that starts at i
RECURSIVE NameEnd(_, _)
NameEnd(text, i) ==
    IF i <= Len(text) /\ Find(IdentifierChars, SubSeq(text, i, i), 1) # 0
    THEN NameEnd(text, i + 1)
    ELSE i

\* the number a shell reads in a text: 0 for a text that holds none
Number(s) == ParseNumber(s, 1, 0).val

\* the first line at or after pc that is the text (stripped), 0 if none
RECURSIVE FindLine(_, _, _)
FindLine(lines, text, pc) ==
    IF pc > Len(lines) THEN 0
    ELSE IF LStrip(lines[pc]) = text THEN pc
    ELSE FindLine(lines, text, pc + 1)

Ended(st, how, code) == [st EXCEPT !.done = how, !.code = code]
Succeeded(st) == [st EXCEPT !.status = 0]

(***************************************************************************)
(* bash                                                                    *)
(***************************************************************************)
\* parameter expansion: ${NAME}, $? and $NAME
RECURSIVE BashExpand(_, _, _)
BashExpand(text, i, st) ==
    LET Braced(close) ==
            Get(st.env, SubSeq(text, i + 2, close - 1)) \o BashExpand(text, close + 1, st)
        Plain(end) ==
            Get(st.env, SubSeq(text, i + 1, end - 1)) \o BashExpand(text, end, st)
    IN  IF i > Len(text) THEN ""
        ELSE IF StartsWithAt(text, i, "${") /\ Find(text, "}", i) # 0
        THEN Braced(Find(text, "}", i))
        ELSE IF StartsWithAt(text, i, "$?")
        THEN ToString(st.status) \o BashExpand(text, i + 2, st)
        ELSE IF SubSeq(text, i, i) = "$" /\ NameEnd(text, i + 1) > i + 1
        THEN Plain(NameEnd(text, i + 1))
        ELSE SubSeq(text, i, i) \o BashExpand(text, i + 1, st)

\* one statement: [st, jump], jump being the line to go on with after a
\* condition that is false ("" for the next line)
BashStatement(line, st) ==
    LET Next(s) == [st |-> s, jump |-> ""]
        \* [[ ":${NAME}:" != *":value:"* ]] && export NAME="..."
        Guarded(m) ==
            IF ~Contains(":" \o Get(st.env, m.holes[1]) \o ":", ":" \o m.holes[2] \o ":")
            THEN Next(Succeeded([st EXCEPT !.env = Put(@, m.holes[3],
                                                        BashExpand(m.holes[4], 1, st))]))
            ELSE Next([st EXCEPT !.status = 1])
        Export(m) ==
            Next(Succeeded([st EXCEPT !.env = Put(@, m.holes[1], BashExpand(m.holes[2], 1, st))]))
        Unset(m) == Next(Succeeded([st EXCEPT !.env = Del(@, m.holes[1])]))
        \* if [[ $NAME -ne 0 ]]; then
        If(m) ==
            IF Number(Get(st.env, m.holes[1])) # 0
            THEN Next(Succeeded(st))
            ELSE [st |-> Succeeded(st), jump |-> "fi"]
        Leave(m, how) == Next(Ended(st, how, Number(BashExpand(m.holes[1], 1, st))))
        Assign(m) ==
            Next(Succeeded([st EXCEPT !.env = Put(@, m.holes[1], BashExpand(m.holes[2], 1, st))]))
    IN  CASE line = "" \/ line = "fi" -> Next(st)
          [] line = "true" \/ line = "set +x" -> Next(Succeeded(st))
          [] Match(line, <<"[[ \":${", "}:\" != *\":", ":\"* ]] && export ", "=\"", "\"">>).ok ->
                Guarded(Match(line, <<"[[ \":${", "}:\" != *\":", ":\"* ]] && export ",
                                      "=\"", "\"">>))
          [] Match(line, <<"export ", "=\"", "\"">>).ok ->
                Export(Match(line, <<"export ", "=\"", "\"">>))
          [] Match(line, <<"unset ", "">>).ok -> Unset(Match(line, <<"unset ", "">>))
          [] Match(line, <<"if [[ $", " -ne 0 ]]; then">>).ok ->
                If(Match(line, <<"if [[ $", " -ne 0 ]]; then">>))
          [] Match(line, <<"exit ", "">>).ok -> Leave(Match(line, <<"exit ", "">>), "exit")
          [] Match(line, <<"return ", "">>).ok -> Leave(Match(line, <<"return ", "">>), "return")
          [] /\ Match(line, <<"", "=", "">>).ok
             /\ IsIdentifier(Match(line, <<"", "=", "">>).holes[1]) ->
                Assign(Match(line, <<"", "=", "">>))
          [] OTHER -> Next(Ended(st, "error", 2))

RECURSIVE BashRun(_, _, _)
BashRun(lines, pc, st) ==
    LET Continue(r) ==
            IF r.jump = ""
            THEN BashRun(lines, pc + 1, r.st)
            ELSE IF FindLine(lines, r.jump, pc) = 0 THEN Ended(r.st, "error", 2)
            ELSE BashRun(lines, FindLine(lines, r.jump, pc) + 1, r.st)
    IN  IF pc > Len(lines) \/ st.done # "running" THEN st
        ELSE Continue(BashStatement(LStrip(lines[pc]), st))

(***************************************************************************)
(* cmd.exe, running a batch file: a line is expanded, then read            *)
(***************************************************************************)
\* %NAME%; ERRORLEVEL is the status unless a variable of that name is set
RECURSIVE BatchExpand(_, _, _)
BatchExpand(text, i, st) ==
    LET Value(name) ==
            IF name = "ERRORLEVEL" /\ name \notin DOMAIN st.env
            THEN ToString(st.status)
            ELSE Get(st.env, name)
        Variable(close) ==
            Value(SubSeq(text, i + 1, close - 1)) \o BatchExpand(text, close + 1, st)
    IN  IF i > Len(text) THEN ""
        ELSE IF SubSeq(text, i, i) = "%" /\ Find(text, "%", i + 1) # 0
        THEN Variable(Find(text, "%", i + 1))
        ELSE SubSeq(text, i, i) \o BatchExpand(text, i + 1, st)

\* the comparison operators of IF
BatchCompareOps == {"==", "EQU", "NEQ", "LSS", "LEQ", "GTR", "GEQ"}

BatchCompare(left, op, right) ==
    CASE op \in {"==", "EQU"} -> Number(left) = Number(right)
      [] op = "NEQ" -> Number(left) # Number(right)
      [] op = "LSS" -> Number(left) < Number(right)
      [] op = "LEQ" -> Number(left) <= Number(right)
      [] op = "GTR" -> Number(left) > Number(right)
      [] op = "GEQ" -> Number(left) >= Number(right)

\* one line, expanded: [st, jump], jump being the label to go to
BatchStatement(line, st) ==
    LET Next(s) == [st |-> s, jump |-> ""]
        \* echo ";...;" | findstr /C:";value;" >nul
        Findstr(m) ==
            Next([st EXCEPT !.status =
                    IF Contains("\";" \o m.holes[1] \o ";\"", ";" \o m.holes[2] \o ";")
                    THEN 0 ELSE 1])
        Command(text) ==
            IF Match(text, <<"goto ", "">>).ok
            THEN [st |-> st, jump |-> ":" \o Match(text, <<"goto ", "">>).holes[1]]
            ELSE IF Match(text, <<"(exit /B ", ")">>).ok
            THEN Next(Ended(st, "exit",
                            IF Match(text, <<"(exit /B ", ")">>).holes[1] = ""
                            THEN st.status
                            ELSE Number(Match(text, <<"(exit /B ", ")">>).holes[1])))
            ELSE Next(Ended(st, "error", 255))
        \* if <left> <op> <right> <command>; an operand that is missing or an
        \* operator that is none ends the batch file ("... was unexpected at
        \* this time.")
        If(m) ==
            IF m.holes[1] = "" \/ m.holes[3] = "" \/ m.holes[2] \notin BatchCompareOps
            THEN Next(Ended(st, "error", 255))
            ELSE IF BatchCompare(m.holes[1], m.holes[2], m.holes[3])
            THEN Command(m.holes[4])
            ELSE Next(st)
        SetVariable(m) ==
            Next([st EXCEPT !.env = IF m.holes[2] = "" THEN Del(@, m.holes[1])
                                    ELSE Put(@, m.holes[1], m.holes[2])])
    IN  CASE line = "" \/ StartsWithAt(line, 1, "@echo ") -> Next(st)
          [] StartsWithAt(line, 1, "REM ") \/ StartsWithAt(line, 1, ":") -> Next(st)
          [] Match(line, <<"echo \";", ";\" | findstr /C:\";", ";\" >nul">>).ok ->
                Findstr(Match(line, <<"echo \";", ";\" | findstr /C:\";", ";\" >nul">>))
          [] Match(line, <<"if ", " ", " ", " ", "">>).ok ->
                If(Match(line, <<"if ", " ", " ", " ", "">>))
          [] Match(line, <<"SET ", "=", "">>).ok -> SetVariable(Match(line, <<"SET ", "=", "">>))
          [] OTHER -> Next(Ended(st, "error", 255))

RECURSIVE BatchRun(_, _, _)
BatchRun(lines, pc, st) ==
    LET Continue(r) ==
            IF r.jump = ""
            THEN BatchRun(lines, pc + 1, r.st)
            ELSE IF FindLine(lines, r.jump, 1) = 0 THEN Ended(r.st, "error", 255)
            ELSE BatchRun(lines, FindLine(lines, r.jump, 1) + 1, r.st)
    IN  IF pc > Len(lines) \/ st.done # "running" THEN st
        ELSE Continue(BatchStatement(BatchExpand(lines[pc], 1, st), st))

(***************************************************************************)
(* PowerShell.  Environment variables are the names "env:NAME" of env;     *)
(* -like and -notlike do not tell the case of letters apart.               *)
(***************************************************************************)
\* $env:NAME, $LASTEXITCODE and $NAME inside a double-quoted text
RECURSIVE PowerShellExpand(_, _, _)
PowerShellExpand(text, i, st) ==
    LET Value(name) == IF name = "LASTEXITCODE" THEN ToString(st.status) ELSE Get(st.env, name)
        Variable(start, end) ==
            Value(SubSeq(text, start, end - 1)) \o PowerShellExpand(text, end, st)
    IN  IF i > Len(text) THEN ""
        ELSE IF StartsWithAt(text, i, "$env:") /\ NameEnd(text, i + 5) > i + 5
        THEN Variable(i + 1, NameEnd(text, i + 5))
        ELSE IF SubSeq(text, i, i) = "$" /\ NameEnd(text, i + 1) > i + 1
        THEN Variable(i + 1, NameEnd(text, i + 1))
        ELSE SubSeq(text, i, i) \o PowerShellExpand(text, i + 1, st)

PowerShellStatement(line, st) ==
    LET Next(s) == [st |-> s, jump |-> ""]
        \* if (-not $env:NAME -or ";$env:NAME;" -notlike "*;value;*") {
        Guard(m) ==
            IF \/ Get(st.env, "env:" \o m.holes[1]) = ""
               \/ ~Contains(Lower(";" \o Get(st.env, "env:" \o m.holes[2]) \o ";"),
                            Lower(";" \o m.holes[3] \o ";"))
            THEN Next(st)
            ELSE [st |-> st, jump |-> "}"]
        \* if ($NAME -ne 0) {
        If(m) ==
            IF Number(Get(st.env, m.holes[1])) # 0 THEN Next(st) ELSE [st |-> st, jump |-> "}"]
        AssignEnv(m) ==
            Next([st EXCEPT !.env = Put(@, "env:" \o m.holes[1],
                                        PowerShellExpand(m.holes[2], 1, st))])
        Assign(m) ==
            Next([st EXCEPT !.env = Put(@, m.holes[1], PowerShellExpand(m.holes[2], 1, st))])
        Remove(m) == Next([st EXCEPT !.env = Del(@, "env:" \o m.holes[1])])
        Leave(m, how) == Next(Ended(st, how, Number(PowerShellExpand(m.holes[1], 1, st))))
    IN  CASE line = "" \/ line = "}" -> Next(st)
          [] Match(line, <<"if (-not $env:", " -or \";$env:", ";\" -notlike \"*;", ";*\") {">>).ok ->
                Guard(Match(line, <<"if (-not $env:", " -or \";$env:", ";\" -notlike \"*;",
                                    ";*\") {">>))
          [] Match(line, <<"if ($", " -ne 0) {">>).ok ->
                If(Match(line, <<"if ($", " -ne 0) {">>))
          [] Match(line, <<"$env:", " = \"", "\"">>).ok ->
                AssignEnv(Match(line, <<"$env:", " = \"", "\"">>))
          [] /\ Match(line, <<"$", " = ", "">>).ok
             /\ IsIdentifier(Match(line, <<"$", " = ", "">>).holes[1]) ->
                Assign(Match(line, <<"$", " = ", "">>))
          [] Match(line, <<"Remove-Item Env:", " -ErrorAction SilentlyContinue">>).ok ->
                Remove(Match(line, <<"Remove-Item Env:", " -ErrorAction SilentlyContinue">>))
          [] Match(line, <<"exit ", "">>).ok -> Leave(Match(line, <<"exit ", "">>), "exit")
          [] Match(line, <<"return ", "">>).ok -> Leave(Match(line, <<"return ", "">>), "return")
          [] OTHER -> Next(Ended(st, "error", 1))

RECURSIVE PowerShellRun(_, _, _)
PowerShellRun(lines, pc, st) ==
    LET Continue(r) ==
            IF r.jump = ""
            THEN PowerShellRun(lines, pc + 1, r.st)
            ELSE IF FindLine(lines, r.jump, pc) = 0 THEN Ended(r.st, "error", 1)
            ELSE PowerShellRun(lines, FindLine(lines, r.jump, pc) + 1, r.st)
    IN  IF pc > Len(lines) \/ st.done # "running" THEN st
        ELSE Continue(PowerShellStatement(LStrip(lines[pc]), st))

\* the script of a dialect, run from the state st
Run(dialect, text, st) ==
    CASE dialect = "Bash" -> BashRun(Split(text, "\n"), 1, st)
      [] dialect = "Batch" -> BatchRun(Split(text, "\n"), 1, st)
      [] dialect = "PowerShell" -> PowerShellRun(Split(text, "\n"), 1, st)

(***************************************************************************)
(* Building the filesystem.  The tree follows the directory convention     *)
(* <tools>/<tool>/[<version>/][<os>/][<arch>/][bin/]: every level may be   *)
(* left out, and every name may be a directory or a plain file.            *)
(***************************************************************************)
\* the nesting level a name takes below a directory of level parentLevel
\* (a tool directory has level 0, "Generic" is an OS or an architecture)
NameLevel(n, parentLevel) ==
    IF n \in Range(VersionNames) THEN 1
    ELSE IF n = "Linux" THEN 2
    ELSE IF n = "Generic" THEN (IF parentLevel < 2 THEN 2 ELSE 3)
    ELSE IF n = "x64" THEN 3
    ELSE 4

RECURSIVE Level(_)
Level(p) == IF Len(p) <= Len(ToolsDir) + 1 THEN 0 ELSE NameLevel(PathName(p), Level(PathParent(p)))

CanCreate(q) ==
    /\ q \notin Entries
    /\ IF PathParent(q) = ToolsDir
       THEN /\ PathName(q) \in Range(ToolNames)
            /\ mode \notin {"selector", "levels"}
       ELSE /\ PathName(q) \notin Range(ToolNames)
            /\ mode = "levels" => PathName(q) \in {"1.9", "1.10", "Linux", "Generic", "x64"}
            /\ NameLevel(PathName(q), Level(PathParent(q))) > Level(PathParent(q))
    /\ IF mode = "selector"
       THEN Cardinality(Entries) - 2 < MaxSelectorEntries
       ELSE IF mode = "catalog"
       THEN Cardinality(Entries) - 1 < MaxCatalogEntries
       ELSE IF mode = "activate"
       THEN Cardinality(dirs) - 1 < MaxActivateDirs
       ELSE IF mode = "levels"
       THEN Cardinality(dirs) - 2 < MaxLevelDirs
       ELSE Cardinality(dirs) - 1 < MaxCommandDirs

NewPaths == {Join(p, n) : p \in dirs, n \in Range(AllNames)}

NoCall == [op |-> "None"]
NoScript == [stage |-> "None"]

\* fs.create_dir
MkDir ==
    /\ call = NoCall
    /\ \E q \in NewPaths :
        /\ CanCreate(q)
        /\ dirs' = dirs \cup {q}
    /\ UNCHANGED <<files, listRev, mode, call, contents, script>>

\* fs.create_file
MkFile ==
    /\ call = NoCall
    /\ Cardinality(files) < MaxFiles
    /\ \E q \in NewPaths :
        /\ CanCreate(q)
        /\ PathName(q) \in Range(FileNames) \cup Range(ToolNames)
        /\ files' = files \cup {q}
    /\ UNCHANGED <<dirs, listRev, mode, call, contents, script>>

(***************************************************************************)
(* Calls of GenerateToolInfos on a tool directory.                         *)
(***************************************************************************)
VersionFilters == {NoFilter, Latest, Pinned(<<1, 9, 0>>), Pinned(<<3, 0, 0>>)}

\* <<filter, allow_generic>> pairs
OsFilters ==
    {<<NoneType, TRUE>>, <<OperatingSystemType("Linux"), TRUE>>,
     <<OperatingSystemType("Linux"), FALSE>>, <<OperatingSystemType("Windows"), TRUE>>}
ArchFilters ==
    {<<NoneType, TRUE>>, <<ArchitectureType("x64"), TRUE>>,
     <<ArchitectureType("x64"), FALSE>>, <<ArchitectureType("ARM64"), TRUE>>}

ToolDirs == {d \in dirs : PathParent(d) = ToolsDir}

CallGenerateToolInfos ==
    /\ mode \in {"selector", "levels"}
    /\ call = NoCall
    /\ \E tool_dir \in ToolDirs, vf \in VersionFilters, osf \in OsFilters, af \in ArchFilters :
        call' = [op |-> "GenerateToolInfos",
                 tool_dir |-> tool_dir,
                 version_filter |-> vf,
                 operating_system_filter |-> osf[1],
                 architecture_filter |-> af[1],
                 allow_generic_operating_system |-> osf[2],
                 allow_generic_architecture |-> af[2],
                 result |-> GenerateToolInfos(tool_dir, vf, osf[1], af[1], osf[2], af[2])]
    /\ UNCHANGED <<dirs, files, listRev, mode, contents, script>>

(***************************************************************************)
(* Calls on the whole tools directory.                                     *)
(***************************************************************************)
IncludeSets == {{}, {"T1"}, {"T1", "T2"}}
ExcludeSets == {{}, {"T1"}, {"T3"}}
ToolVersions == {{}, {<<"T1", <<1, 9, 0>>>>}, {<<"T1", <<3, 0, 0>>>>}}

\* the platforms a whole-directory call is made for: <<os, allow_generic_os,
\* architecture, allow_generic_architecture>>
Platforms ==
    IF mode = "catalog"
    THEN {<<OperatingSystemType("Linux"), allow, ArchitectureType("x64"), allow>> : allow \in BOOLEAN}
    ELSE {<<osf[1], osf[2], af[1], af[2]>> :
            osf \in {f \in OsFilters : f[1] # NoneType}, af \in {f \in ArchFilters : f[1] # NoneType}}

CallGetAllToolInfos ==
    /\ call = NoCall
    /\ \E inc \in (IF mode = "catalog" THEN IncludeSets ELSE {{}}),
          exc \in (IF mode = "catalog" THEN ExcludeSets ELSE {{}}),
          tv \in ToolVersions, pf \in Platforms :
        call' = [op |-> "GetAllToolInfos",
                 include_tools |-> inc,
                 exclude_tools |-> exc,
                 tool_versions |-> tv,
                 operating_system |-> pf[1],
                 architecture |-> pf[3],
                 allow_generic_operating_systems |-> pf[2],
                 allow_generic_architectures |-> pf[4],
                 result |-> GetAllToolInfos(ToolsDir, inc, exc, tv, pf[1], pf[3], pf[2], pf[4])]
    /\ UNCHANGED <<dirs, files, listRev, mode, contents, script>>

CallGetToolInfos ==
    /\ mode \in {"catalog", "levels"}
    /\ call = NoCall
    /\ \E inc \in (IF mode = "catalog" THEN IncludeSets ELSE {{}}),
          exc \in (IF mode = "catalog" THEN ExcludeSets ELSE {{}}),
          tv \in ToolVersions, pf \in Platforms :
        call' = [op |-> "GetToolInfos",
                 include_tools |-> inc,
                 exclude_tools |-> exc,
                 tool_versions |-> tv,
                 operating_system |-> pf[1],
                 architecture |-> pf[3],
                 no_generic_operating_systems |-> ~pf[2],
                 no_generic_architectures |-> ~pf[4],
                 result |-> GetToolInfos(ToolsDir, inc, exc, tv, pf[1], pf[3], ~pf[2], ~pf[4])]
    /\ UNCHANGED <<dirs, files, listRev, mode, contents, script>>

CallGenerateManifest ==
    /\ mode = "catalog"
    /\ call = NoCall
    /\ \E inc \in IncludeSets, exc \in ExcludeSets :
        call' = [op |-> "GenerateManifest",
                 include_tools |-> inc,
                 exclude_tools |-> exc,
                 result |-> GenerateManifest(ToolsDir, inc, exc)]
    /\ UNCHANGED <<dirs, files, listRev, mode, contents, script>>

\* the three levels of GenerateToolInfos, each called on a directory of the tool
WorkingDirs == {d \in dirs : Len(d) > Len(ToolsDir)}

CallGenerateVersionedDirs ==
    /\ mode = "selector"
    /\ call = NoCall
    /\ \E working_dir \in WorkingDirs, vf \in VersionFilters :
        call' = [op |-> "_GenerateVersionedDirs",
                 tool_name |-> "T1",
                 working_dir |-> working_dir,
                 dir_filter |-> vf,
                 result |-> _GenerateVersionedDirs("T1", working_dir, vf)]
    /\ UNCHANGED <<dirs, files, listRev, mode, contents, script>>

CallGenerateOperatingSystemDirs ==
    /\ mode = "selector"
    /\ call = NoCall
    /\ \E working_dir \in WorkingDirs, osf \in OsFilters :
        call' = [op |-> "_GenerateOperatingSystemDirs",
                 tool_name |-> "T1",
                 working_dir |-> working_dir,
                 dir_filter |-> osf[1],
                 allow_generic |-> osf[2],
                 result |-> _GenerateOperatingSystemDirs("T1", working_dir, osf[1], osf[2])]
    /\ UNCHANGED <<dirs, files, listRev, mode, contents, script>>

CallGenerateArchitectureDirs ==
    /\ mode = "selector"
    /\ call = NoCall
    /\ \E working_dir \in WorkingDirs, af \in ArchFilters :
        call' = [op |-> "_GenerateArchitectureDirs",
                 tool_name |-> "T1",
                 working_dir |-> working_dir,
                 dir_filter |-> af[1],
                 allow_generic |-> af[2],
                 result |-> _GenerateArchitectureDirs("T1", working_dir, af[1], af[2])]
    /\ UNCHANGED <<dirs, files, listRev, mode, contents, script>>

\* GeneratePotentialEnvFiles on a ToolInfo that GenerateToolInfos yields for
\* the tool directory
CallGeneratePotentialEnvFiles ==
    /\ mode = "selector"
    /\ call = NoCall
    /\ \E tool_dir \in ToolDirs :
        \E self \in Range(GenerateToolInfos(tool_dir, NoFilter, NoneType, NoneType, TRUE, TRUE).out) :
            call' = [op |-> "GeneratePotentialEnvFiles",
                     self |-> self,
                     file_extension |-> ".env",
                     result |-> GeneratePotentialEnvFiles(self, ".env")]
    /\ UNCHANGED <<dirs, files, listRev, mode, contents, script>>

(***************************************************************************)
(* Environment files, and calls of CreateShellCommands.                    *)
(***************************************************************************)
\* the texts an environment file may hold, as lines
EnvContents ==
    {<<"A=1", "B=./bin", "D=">>,
     <<"B=2", "", "C=../up/./x">>,
     <<"A=1", "BAD LINE", "C=3">>,
     <<"A=lib./x", "C=.\\w;./y">>}

\* the paths GeneratePotentialEnvFiles yields for some configuration of a tool
PotentialEnvFiles ==
    UNION {UNION {Range(GeneratePotentialEnvFiles(tool_info, ".env").out) :
                    tool_info \in Range(GenerateToolInfos(tool_dir, NoFilter, NoneType, NoneType,
                                                          TRUE, TRUE).out)} :
            tool_dir \in ToolDirs}

\* fs.create_file(path, contents=...)
MkEnvFile ==
    /\ mode \in {"commands", "activate"}
    /\ call = NoCall
    /\ Cardinality(DOMAIN contents) < (IF mode = "activate" THEN MaxActivateEnvFiles ELSE MaxEnvFiles)
    /\ \E q \in PotentialEnvFiles, text \in EnvContents :
        /\ q \notin Entries
        /\ files' = files \cup {q}
        /\ contents' = [f \in DOMAIN contents \cup {q} |-> IF f = q THEN text ELSE contents[f]]
    /\ UNCHANGED <<dirs, listRev, mode, call, script>>

\* CreateShellCommands on the tools GetAllToolInfos resolves for Linux / x64
CallCreateShellCommands ==
    /\ mode = "commands"
    /\ call = NoCall
    /\ \E tv \in ToolVersions :
        \E tool_infos \in {GetAllToolInfos(ToolsDir, {}, {}, tv, OperatingSystemType("Linux"),
                                           ArchitectureType("x64"), TRUE, TRUE).results} :
            call' = [op |-> "CreateShellCommands",
                     tool_infos |-> tool_infos,
                     result |-> CreateShellCommands(tool_infos)]
    /\ UNCHANGED <<dirs, files, listRev, mode, contents, script>>

(***************************************************************************)
(* Scripts: commands are collected, written as Activate writes them, and   *)
(* the text is run by the shell of the dialect.                            *)
(***************************************************************************)
\* the separator of the entries of a variable, by dialect
ListSeparator(dialect) == IF dialect = "Bash" THEN ":" ELSE ";"

\* the name under which a run keeps the environment variable name
EnvName(dialect, name) == IF dialect = "PowerShell" THEN "env:" \o name ELSE name

\* the value the Augment commands of the model add
AugmentedValue == "/t"

\* the values PATH may have before the script runs (<<>>: not set): empty,
\* without the value, the value alone, the value among others, and the value
\* inside longer entries only
InitialValues(dialect) ==
    {<<>>, <<"">>, <<"/a">>, <<AugmentedValue>>,
     <<"/a" \o ListSeparator(dialect) \o AugmentedValue \o ListSeparator(dialect) \o "/b">>,
     <<"/a" \o AugmentedValue \o ListSeparator(dialect) \o AugmentedValue \o "2">>}

InitialStatuses == {0, 3}

\* the commands a script is made of
ShellCommands ==
    {EchoOff,
     Message("a & b\n\nc"),
     Call("setup"),
     [Execute("Run.CMD x") EXCEPT !.exit_on_error = FALSE],
     Execute("tool"),
     Set("PATH", "/s"),
     [type |-> "Set", name |-> "PATH"],
     Augment("PATH", AugmentedValue),
     [Augment("PATH", AugmentedValue) EXCEPT !.append_values = TRUE],
     Exit,
     With([Exit EXCEPT !.pause_on_success = TRUE, !.pause_on_error = TRUE], "return_code", 3),
     ExitOnError,
     With(ExitOnError, "variable_name", "MY_ERR"),
     With(ExitOnError, "return_code", 0),
     With(ExitOnError, "return_code", 3),
     With([ExitOnError EXCEPT !.use_return_statement = TRUE], "return_code", 0),
     PersistError("MY_ERR"),
     PushDirectory,
     With(PushDirectory, "value", ToolsDir),
     PopDirectory,
     Raw("\n"),
     Raw("rem x")}

\* the commands whose statements Run reads
RunnableTypes == {"EchoOff", "Set", "Augment", "ExitOnError", "PersistError"}

\* uuid.uuid4(), for the k-th command: values that differ from one another
UniqueId(salt, k) == ToString(salt) \o "f" \o ToString(k)

\* __main__.py, Activate: the results of Accept that are a str, written one
\* after the other
RECURSIVE WriteCommands(_, _, _, _)
WriteCommands(dialect, commands, salt, n) ==
    LET Written(result) == IF result = <<>> THEN "" ELSE result[1]
    IN  IF n = 0 THEN ""
        ELSE WriteCommands(dialect, commands, salt, n - 1)
             \o Written(Accept(dialect, commands[n], UniqueId(salt, n)))

AddCommand ==
    /\ mode = "shell"
    /\ script.stage = "building"
    /\ Len(script.commands) < MaxCommands
    /\ \E command \in ShellCommands :
        script' = [script EXCEPT !.commands = Append(@, command)]
    /\ UNCHANGED <<dirs, files, listRev, mode, call, contents>>

WriteScript ==
    /\ mode = "shell"
    /\ script.stage = "building"
    /\ script.commands # <<>>
    /\ \E salt \in {1, 2} :
        script' = [script EXCEPT
                      !.stage = "written",
                      !.text = WriteCommands(script.dialect, script.commands, salt,
                                             Len(script.commands))]
    /\ UNCHANGED <<dirs, files, listRev, mode, call, contents>>

RunScript ==
    /\ mode = "shell"
    /\ script.stage = "written"
    /\ \A i \in DOMAIN script.commands : script.commands[i].type \in RunnableTypes
    /\ script' = [script EXCEPT
                    !.stage = "run",
                    !.final = Run(script.dialect, script.text, script.initial)]
    /\ UNCHANGED <<dirs, files, listRev, mode, call, contents>>

(***************************************************************************)
(* __main__.py: Activate.  The output file is the variable script: NoScript *)
(* while there is no file, OutputFile(text) for a file holding text.       *)
(***************************************************************************)
OutputFile(text) == [stage |-> "file", text |-> text]

\* dm.Nested: what the nested DoneManager wrote, and its result when it is
\* the first error
Nested(dm, nested_dm) ==
    [sink |-> dm.sink \o nested_dm.sink,
     result |-> IF dm.result >= 0 /\ nested_dm.result < 0 THEN nested_dm.result ELSE dm.result]

WriteLine(dm, text) ==
    [sink |-> Append(dm.sink, [level |-> "line", text |-> text]),
     result |-> dm.result]

\* str.rstrip / str.lstrip of blanks, as \s* takes them in kvp_regex
RECURSIVE RStripBlanks(_)
RStripBlanks(s) ==
    IF s # "" /\ CharAt(s, Len(s)) = " " THEN RStripBlanks(SubSeq(s, 1, Len(s) - 1)) ELSE s

RECURSIVE LStripBlanks(_)
LStripBlanks(s) ==
    IF s # "" /\ CharAt(s, 1) = " " THEN LStripBlanks(SubSeq(s, 2, Len(s))) ELSE s

\* kvp_regex.match(arg): None, or <<tool_name, version>>.  The tool name is
\* the shortest prefix that an unescaped "=" with something behind it
\* follows; blanks around the "=" and one leading "v" of a longer rest belong
\* to neither group.
KvpMatch(arg) ==
    LET equals == {eq \in 2..(Len(arg) - 1) :
                      CharAt(arg, eq) = "=" /\ CharAt(arg, eq - 1) # "\\"}
        Name(before) ==
            IF RStripBlanks(before) = "" THEN CharAt(before, 1) ELSE RStripBlanks(before)
        Version(after, rest) ==
            IF rest = "" THEN CharAt(after, Len(after))
            ELSE IF CharAt(rest, 1) = "v" /\ Len(rest) > 1 THEN SubSeq(rest, 2, Len(rest))
            ELSE rest
        At(eq) ==
            <<Name(SubSeq(arg, 1, eq - 1)),
              Version(SubSeq(arg, eq + 1, Len(arg)), LStripBlanks(SubSeq(arg, eq + 1, Len(arg))))>>
    IN  IF equals = {} THEN None
        ELSE At(CHOOSE eq \in equals : \A other \in equals : eq <= other)

InvalidArgumentMsg(arg) ==
    "The tool version '" \o arg \o "' is not a valid command line argument.\n"

InvalidVersionMsg(version_str, tool_name) ==
    "The version '" \o version_str \o "' for the tool '" \o tool_name \o "' is invalid.\n"

\* _ExtractToolVersions: [results, dm], results being the set of the
\* <<tool_name, version>> items of the dict
RECURSIVE _ExtractToolVersions(_, _, _)
_ExtractToolVersions(dm, args, n) ==
    LET Assign(st, tool_name, version) ==
            [st EXCEPT !.results = {tv \in @ : tv[1] # tool_name} \cup {<<tool_name, version>>}]
        Coerced(st, match, coerced) ==
            IF ~coerced.ok
            THEN [st EXCEPT !.dm = WriteError(@, InvalidVersionMsg(match[2], match[1]))]
            ELSE Assign(st, match[1], coerced.version)
        Matched(st, arg, match) ==
            IF match = None
            THEN [st EXCEPT !.dm = WriteError(@, InvalidArgumentMsg(arg))]
            ELSE Coerced(st, match, Coerce(match[2]))
    IN  IF n = 0 THEN [results |-> {}, dm |-> dm]
        ELSE Matched(_ExtractToolVersions(dm, args, n - 1), args[n], KvpMatch(args[n]))

\* ToolInfo.GetToolInfos, which Activate calls with no_generic_* keywords:
\* the resolution of every tool of the directory, the generic fallbacks
\* being allowed unless the flag forbids them
ToolInfo_GetToolInfos(tools_directory, include_tools, exclude_tools, tool_versions, operating_system, architecture, no_generic_operating_systems, no_generic_architectures) ==
    GetAllToolInfos(tools_directory, include_tools, exclude_tools, tool_versions,
                    operating_system, architecture,
                    ~no_generic_operating_systems, ~no_generic_architectures)

NoToolsFoundMsg(tool_directory) ==
    "No tools were found in '" \o PathStr(tool_directory) \o "'.\n"

\* "-" * n
RECURSIVE Dashes(_)
Dashes(n) == IF n <= 0 THEN "" ELSE "-" \o Dashes(n - 1)

\* the text Activate displays for a tool when dm.is_verbose
ToolDisplay(tool_info) ==
    LET AttributeStr(attribute) ==
            IF attribute = NoneType THEN "None" ELSE attribute.name
        Formatted(header) ==
            header \o "\n"
                \o Dashes(IF Len(header) > 17 THEN Len(header) ELSE 17) \o "\n"
                \o "Root:              " \o PathStr(tool_info.root_directory) \o "\n"
                \o "Versioned:         " \o PathStr(tool_info.versioned_directory) \o "\n"
                \o "Binary:            " \o PathStr(tool_info.binary_directory) \o "\n"
                \o "Operating System:  " \o AttributeStr(tool_info.operating_system) \o "\n"
                \o "Architecture:      " \o AttributeStr(tool_info.architecture) \o "\n\n"
    IN  Formatted(IF tool_info.version = None THEN tool_info.name
                  ELSE tool_info.name \o " (v" \o VersionStr(tool_info.version) \o ")")

RECURSIVE DisplayTools(_, _, _)
DisplayTools(dm, tool_infos, n) ==
    IF n = 0 THEN dm
    ELSE WriteLine(DisplayTools(dm, tool_infos, n - 1), ToolDisplay(tool_infos[n]))

\* an Activate that leaves the output file of an earlier run alone when it
\* finds no tool
Activate_KeepStaleOutput(output, output_type, tool_directory, include, exclude, tool_version, operating_system, architecture, no_generic_operating_system, no_generic_architecture, verbose, salt) ==
    LET Written(dm, tool_infos, created) ==
            IF created.raised # ""
            THEN [output |-> NoScript, dm |-> Nested(dm, created.dm),
                  tool_infos |-> tool_infos, commands |-> <<>>, raised |-> created.raised]
            ELSE [output |-> OutputFile(WriteCommands(output_type, created.commands, salt,
                                                      Len(created.commands))),
                  dm |-> Nested(dm, created.dm), tool_infos |-> tool_infos,
                  commands |-> created.commands, raised |-> ""]
        Found(dm, tool_infos) ==
            IF tool_infos = <<>>
            THEN [output |-> output, dm |-> WriteError(dm, NoToolsFoundMsg(tool_directory)),
                  tool_infos |-> tool_infos, commands |-> <<>>, raised |-> ""]
            ELSE Written(IF verbose THEN DisplayTools(dm, tool_infos, Len(tool_infos)) ELSE dm,
                         tool_infos, CreateShellCommands(tool_infos))
        Resolved(dm, got) ==
            IF got.raised # ""
            THEN [output |-> NoScript, dm |-> Nested(dm, got.dm), tool_infos |-> <<>>,
                  commands |-> <<>>, raised |-> got.raised]
            ELSE Found(Nested(dm, got.dm), got.results)
        Extracted(versions) ==
            Resolved(versions.dm,
                     ToolInfo_GetToolInfos(tool_directory, include, exclude, versions.results,
                                           operating_system, architecture,
                                           no_generic_operating_system, no_generic_architecture))
    IN  Extracted(_ExtractToolVersions(NewDoneManager, tool_version, Len(tool_version)))

\* Activate: [output, dm, tool_infos, commands, raised], output being the
\* output file when the command ends.  The file is unlinked first, so it is
\* absent wherever the command ends before it writes.  Extracted: from the
\* GetToolInfos call on; Resolved: after it; Found: from "if not tool_infos"
\* on; Written: from "Write the output" on, created being what
\* CreateShellCommands returned.
Activate(output, output_type, tool_directory, include, exclude, tool_version, operating_system, architecture, no_generic_operating_system, no_generic_architecture, verbose, salt) ==
    LET Written(dm, tool_infos, created) ==
            IF created.raised # ""
            THEN [output |-> NoScript, dm |-> Nested(dm, created.dm),
                  tool_infos |-> tool_infos, commands |-> <<>>, raised |-> created.raised]
            ELSE [output |-> OutputFile(WriteCommands(output_type, created.commands, salt,
                                                      Len(created.commands))),
                  dm |-> Nested(dm, created.dm), tool_infos |-> tool_infos,
                  commands |-> created.commands, raised |-> ""]
        Found(dm, tool_infos) ==
            IF tool_infos = <<>>
            THEN [output |-> NoScript, dm |-> WriteError(dm, NoToolsFoundMsg(tool_directory)),
                  tool_infos |-> tool_infos, commands |-> <<>>, raised |-> ""]
            ELSE Written(IF verbose THEN DisplayTools(dm, tool_infos, Len(tool_infos)) ELSE dm,
                         tool_infos, CreateShellCommands(tool_infos))
        Resolved(dm, got) ==
            IF got.raised # ""
            THEN [output |-> NoScript, dm |-> Nested(dm, got.dm), tool_infos |-> <<>>,
                  commands |-> <<>>, raised |-> got.raised]
            ELSE Found(Nested(dm, got.dm), got.results)
        Extracted(versions) ==
            Resolved(versions.dm,
                     ToolInfo_GetToolInfos(tool_directory, include, exclude, versions.results,
                                           operating_system, architecture,
                                           no_generic_operating_system, no_generic_architecture))
    IN  Extracted(_ExtractToolVersions(NewDoneManager, tool_version, Len(tool_version)))

\* DoneManager.CreateCommandLine: the process ends with the result of the
\* DoneManager, which an exception that leaves the block makes negative
ExitCode(done) == IF done.raised # "" THEN -1 ELSE done.dm.result

\* the values of --tool-version
ToolVersionArgs == {<<>>, <<"T1=v1.9">>, <<"T1 = 3.0.0", "T2">>, <<"T1=x">>}

\* an output file left by an earlier run
MkOutputFile ==
    /\ mode = "activate"
    /\ call = NoCall
    /\ script = NoScript
    /\ script' = OutputFile("stale\n")
    /\ UNCHANGED <<dirs, files, listRev, mode, call, contents>>

CallActivate ==
    /\ mode = "activate"
    /\ call = NoCall
    /\ \E output_type \in Dialects, exclude \in {{}, {"T1"}}, tool_version \in ToolVersionArgs,
          flags \in {<<FALSE, FALSE>>, <<TRUE, TRUE>>} :
        LET done == Activate(script, output_type, ToolsDir, {}, exclude, tool_version,
                             OperatingSystemType("Linux"), ArchitectureType("x64"),
                             flags[1], flags[1], flags[2], 1)
        IN  /\ call' = [op |-> "Activate",
                        output_type |-> output_type,
                        exclude |-> exclude,
                        tool_version |-> tool_version,
                        no_generic |-> flags[1],
                        verbose |-> flags[2],
                        before |-> script,
                        dm |-> done.dm,
                        tool_infos |-> done.tool_infos,
                        commands |-> done.commands,
                        raised |-> done.raised,
                        exit_code |-> ExitCode(done)]
            /\ script' = done.output
    /\ UNCHANGED <<dirs, files, listRev, mode, contents>>

(***************************************************************************)
(* ManifestGenerator.py: _ToolConfigurationToDict.  In the dict a str is   *)
(* the one-element sequence of its text and None is the empty sequence.    *)
(***************************************************************************)
\* Path.as_posix() of a relative path
AsPosix(path) == IF path = <<>> THEN "." ELSE JoinStr(path, "/")

\* a conversion that writes the "Generic" sentinel as None
_ToolConfigurationToDict_GenericAsNone(config) ==
    LET Value(attribute) ==
            IF attribute = NoneType \/ attribute = Generic THEN None
            ELSE <<attribute.name>>
    IN  [version |-> IF config.version # None THEN <<VersionStr(config.version)>> ELSE None,
         operating_system |-> Value(config.operating_system),
         architecture |-> Value(config.architecture),
         versioned_directory |-> <<AsPosix(config.versioned_directory)>>,
         binary_directory |-> <<AsPosix(config.binary_directory)>>,
         env_files |-> [i \in DOMAIN config.env_files |-> <<AsPosix(config.env_files[i])>>]]

\* _ToolConfigurationToDict: os_value and arch_value are Value of the
\* attribute (None, the name of the enumeration member, or the str
\* "Generic" itself); env_files are the keys of the dict, in its order
_ToolConfigurationToDict(config) ==
    LET Value(attribute) ==
            IF attribute = NoneType THEN None
            ELSE IF attribute.kind \in {"OperatingSystemType", "ArchitectureType"}
            THEN <<attribute.name>>
            ELSE <<"Generic">>
    IN  [version |-> IF config.version # None THEN <<VersionStr(config.version)>> ELSE None,
         operating_system |-> Value(config.operating_system),
         architecture |-> Value(config.architecture),
         versioned_directory |-> <<AsPosix(config.versioned_directory)>>,
         binary_directory |-> <<AsPosix(config.binary_directory)>>,
         env_files |-> [i \in DOMAIN config.env_files |-> <<AsPosix(config.env_files[i])>>]]

\* the configurations the conversion is applied to: every version, operating
\* system and architecture value a configuration can carry, on directories of
\* the directory convention
Configurations ==
    {ToolConfiguration(version, operating_system, architecture, directory[1], directory[2], env_files) :
        version \in {None, <<1, 9, 0>>, <<1, 10, 0>>, <<3, 0, 0>>},
        operating_system \in {NoneType, Generic}
                                 \cup {OperatingSystemType(n) : n \in Range(OperatingSystemNames)},
        architecture \in {NoneType, Generic}
                             \cup {ArchitectureType(n) : n \in Range(ArchitectureNames)},
        directory \in {<<<<"T1">>, <<"T1">>>>,
                       <<<<"T1">>, <<"T1", "bin">>>>,
                       <<<<"T1", "1.9">>, <<"T1", "1.9">>>>,
                       <<<<"T1", "1.9", "Generic">>, <<"T1", "1.9", "Generic", "bin">>>>,
                       <<<<"T1", "v1.9.0", "Linux", "x64">>, <<"T1", "v1.9.0", "Linux", "x64">>>>},
        env_files \in {<<>>, <<<<"T1", "T1.env">>>>}}

CallToolConfigurationToDict ==
    /\ mode = "manifest"
    /\ call = NoCall
    /\ \E config \in Configurations :
        call' = [op |-> "_ToolConfigurationToDict", config |-> config,
                 result |-> _ToolConfigurationToDict(config)]
    /\ UNCHANGED <<dirs, files, listRev, mode, contents, script>>

(***************************************************************************)
(* Calls of Accept on one command.                                         *)
(***************************************************************************)
\* commands of a class the dispatcher has no entry for: a subclass of
\* Command defined by the caller, and a subclass of a command of the library
OtherCommands ==
    {[type |-> "InvalidCommand"],
     [type |-> "MyMessage", value |-> "a"]}

CallAccept ==
    /\ mode = "visitor"
    /\ call = NoCall
    /\ \E dialect \in Dialects, command \in ShellCommands \cup OtherCommands, salt \in {1, 2} :
        LET done == AcceptCommand(dialect, command, UniqueId(salt, 1))
        IN  call' = [op |-> "Accept", dialect |-> dialect, command |-> command,
                     unique_id |-> UniqueId(salt, 1), handlers |-> done.handlers,
                     result |-> done.result, raised |-> done.raised]
    /\ UNCHANGED <<dirs, files, listRev, mode, contents, script>>

(***************************************************************************)
(* Specifications.                                                         *)
(***************************************************************************)
\* one tool directory, and calls of GenerateToolInfos on it
InitSelector ==
    /\ dirs = {ToolsDir, Join(ToolsDir, "T1")}
    /\ files = {}
    /\ listRev \in BOOLEAN
    /\ mode = "selector"
    /\ call = NoCall
    /\ contents = <<>>
    /\ script = NoScript

NextSelector ==
    \/ MkDir
    \/ MkFile
    \/ CallGenerateToolInfos
    \/ CallGenerateVersionedDirs
    \/ CallGenerateOperatingSystemDirs
    \/ CallGenerateArchitectureDirs
    \/ CallGetAllToolInfos
    \/ CallGeneratePotentialEnvFiles

SpecSelector == InitSelector /\ [][NextSelector]_vars

\* a tools directory with several tools, and calls on the whole directory
Init ==
    /\ dirs = {ToolsDir}
    /\ files = {}
    /\ listRev \in BOOLEAN
    /\ mode = "catalog"
    /\ call = NoCall
    /\ contents = <<>>
    /\ script = NoScript

Next == MkDir \/ MkFile \/ CallGetAllToolInfos \/ CallGetToolInfos \/ CallGenerateManifest

Spec == Init /\ [][Next]_vars

\* a tools directory with environment files, and calls of CreateShellCommands
InitCommands ==
    /\ dirs = {ToolsDir}
    /\ files = {}
    /\ listRev = FALSE
    /\ mode = "commands"
    /\ call = NoCall
    /\ contents = <<>>
    /\ script = NoScript

NextCommands == MkDir \/ MkEnvFile \/ CallCreateShellCommands

SpecCommands == InitCommands /\ [][NextCommands]_vars

\* a script of one dialect, and the shell that runs it
InitShell ==
    /\ dirs = {ToolsDir}
    /\ files = {}
    /\ listRev = FALSE
    /\ mode = "shell"
    /\ call = NoCall
    /\ contents = <<>>
    /\ \E dialect \in Dialects, status \in InitialStatuses :
        \E value \in InitialValues(dialect) :
            LET variables == [n \in {"MY_ERR"} |-> "2"]
                initial == [env |-> IF value = <<>> THEN variables
                                    ELSE Put(variables, EnvName(dialect, "PATH"), value[1]),
                            status |-> status, done |-> "running", code |-> 0]
            IN  script = [stage |-> "building", dialect |-> dialect, commands |-> <<>>,
                          initial |-> initial, text |-> "", final |-> initial]

NextShell == AddCommand \/ WriteScript \/ RunScript

SpecShell == InitShell /\ [][NextShell]_vars

\* a visitor of one dialect, and calls of Accept on it
InitVisitor ==
    /\ dirs = {ToolsDir}
    /\ files = {}
    /\ listRev = FALSE
    /\ mode = "visitor"
    /\ call = NoCall
    /\ contents = <<>>
    /\ script = NoScript

NextVisitor == CallAccept

SpecVisitor == InitVisitor /\ [][NextVisitor]_vars

\* a tools directory with environment files, an output file, and runs of
\* the activate command
InitActivate ==
    /\ dirs = {ToolsDir}
    /\ files = {}
    /\ listRev = FALSE
    /\ mode = "activate"
    /\ call = NoCall
    /\ contents = <<>>
    /\ script = NoScript

NextActivate == MkDir \/ MkEnvFile \/ MkOutputFile \/ CallActivate

SpecActivate == InitActivate /\ [][NextActivate]_vars

\* configurations, and their conversion for the manifest file
InitManifest ==
    /\ dirs = {ToolsDir}
    /\ files = {}
    /\ listRev = FALSE
    /\ mode = "manifest"
    /\ call = NoCall
    /\ contents = <<>>
    /\ script = NoScript

NextManifest == CallToolConfigurationToDict

SpecManifest == InitManifest /\ [][NextManifest]_vars

\* one tool with version, OS and architecture directories alone, four levels
\* deep, and calls of GenerateToolInfos and Lib.GetToolInfos on it
InitLevels ==
    /\ dirs = {ToolsDir, Join(ToolsDir, "T1")}
    /\ files = {}
    /\ listRev \in BOOLEAN
    /\ mode = "levels"
    /\ call = NoCall
    /\ contents = <<>>
    /\ script = NoScript

NextLevels ==
    \/ MkDir
    \/ CallGenerateToolInfos
    \/ CallGetToolInfos

SpecLevels == InitLevels /\ [][NextLevels]_vars

(***************************************************************************)
(* Properties.  They are stated on the filesystem and on the recorded      *)
(* call, with their own reading of the directory names.                    *)
(***************************************************************************)
IsPrefix(a, b) == Len(a) <= Len(b) /\ SubSeq(b, 1, Len(a)) = a

\* the directory of a ToolInfo's version branch and of its OS branch
VersionBranch(ti) ==
    IF ti.version = None THEN ti.root_directory
    ELSE SubSeq(ti.versioned_directory, 1, Len(ti.root_directory) + 1)
OsBranch(ti) ==
    IF ti.operating_system = NoneType THEN VersionBranch(ti)
    ELSE SubSeq(ti.versioned_directory, 1, Len(VersionBranch(ti)) + 1)

RecognizedOsNames == {"Linux", "MacOS", "Windows", "Generic"}
RecognizedArchNames == {"x64", "x86", "ARM64", "ARM", "Generic"}
HasRecognized(working_dir, names) == \E n \in names : Join(working_dir, n) \in dirs

\* what the OS or architecture level has to do for a filter in a directory
\* that has a recognized subdirectory
ExpectedSelection(tool_name, working_dir, dir_filter, allow_generic) ==
    IF Join(working_dir, dir_filter.name) \in dirs
    THEN [out |-> <<[dir |-> Join(working_dir, dir_filter.name), type |-> dir_filter]>>,
          err |-> ""]
    ELSE IF allow_generic /\ Join(working_dir, "Generic") \in dirs
    THEN [out |-> <<[dir |-> Join(working_dir, "Generic"),
                     type |-> [kind |-> "str", name |-> "Generic"]]>>,
          err |-> ""]
    ELSE [out |-> <<>>,
          err |-> "No directory found for '" \o dir_filter.name \o "' for the tool '"
                      \o tool_name \o "' in '" \o PathStr(working_dir) \o "'."]

\* C1: at the OS level and at the architecture level, with a filter given
\* and at least one recognized subdirectory, the subdirectory named like the
\* filter is selected when it exists (a "Generic" beside it or not);
\* otherwise "Generic" is selected only when it exists and the fallback is
\* allowed, and the attribute is then the string "Generic"; otherwise
\* ValueError names the requested kind, the tool and the directory searched.
\* The same holds of the attributes of every ToolInfo GenerateToolInfos
\* yields.
C1_LevelSelection ==
    /\ (/\ call.op \in {"_GenerateOperatingSystemDirs", "_GenerateArchitectureDirs"}
        /\ call.dir_filter # NoneType
        /\ HasRecognized(call.working_dir,
                         IF call.op = "_GenerateOperatingSystemDirs"
                         THEN RecognizedOsNames ELSE RecognizedArchNames))
       => call.result = ExpectedSelection(call.tool_name, call.working_dir,
                                          call.dir_filter, call.allow_generic)
    /\ call.op = "GenerateToolInfos"
       => \A i \in DOMAIN call.result.out :
            LET ti == call.result.out[i]
                os == ExpectedSelection(ti.name, VersionBranch(ti), call.operating_system_filter,
                                        call.allow_generic_operating_system)
                arch == ExpectedSelection(ti.name, OsBranch(ti), call.architecture_filter,
                                          call.allow_generic_architecture)
            IN  /\ (/\ call.operating_system_filter # NoneType
                    /\ HasRecognized(VersionBranch(ti), RecognizedOsNames))
                   => /\ os.err = ""
                      /\ ti.operating_system = os.out[1].type
                      /\ OsBranch(ti) = os.out[1].dir
                /\ (/\ call.architecture_filter # NoneType
                    /\ HasRecognized(OsBranch(ti), RecognizedArchNames))
                   => /\ arch.err = ""
                      /\ ti.architecture = arch.out[1].type
                      /\ ti.versioned_directory = arch.out[1].dir

\* C1's case: "Linux" requested beside a "Generic" directory, and "x64"
\* requested where only "Generic" exists
C1_Witness ==
    /\ call.op = "GenerateToolInfos"
    /\ call.operating_system_filter = OperatingSystemType("Linux")
    /\ call.architecture_filter = ArchitectureType("x64")
    /\ {Join(call.tool_dir, "Linux"), Join(call.tool_dir, "Generic"),
        Join(Join(call.tool_dir, "Linux"), "Generic")} \subseteq dirs
    /\ Len(call.result.out) = 1
    /\ call.result.out[1].operating_system = OperatingSystemType("Linux")
    /\ call.result.out[1].architecture = Generic

\* the version a directory name stands for (None: the name is no version)
ExpectedVersion(n) ==
    IF n \in {"1.9", "v1.9.0"} THEN <<1, 9, 0>>
    ELSE IF n = "1.10" THEN <<1, 10, 0>>
    ELSE None

VersionDirs(working_dir) ==
    {d \in dirs : PathParent(d) = working_dir /\ ExpectedVersion(PathName(d)) # None}

Precedence(v) == v[1] * 1000000 + v[2] * 1000 + v[3]

IsMaximum(v, working_dir) ==
    /\ \E d \in VersionDirs(working_dir) : ExpectedVersion(PathName(d)) = v
    /\ \A d \in VersionDirs(working_dir) :
          Precedence(ExpectedVersion(PathName(d))) <= Precedence(v)

IsVersionBranch(dir, version, working_dir) ==
    /\ dir \in VersionDirs(working_dir)
    /\ ExpectedVersion(PathName(dir)) = version

\* C2: with the filter "latest" and at least one subdirectory whose name
\* coerces, the version level yields exactly one branch, and its version is
\* the maximum of the subdirectories' versions; GetAllToolInfos resolves a
\* tool that is not pinned to that version; "v2.3.4" coerces as "2.3.4".
C2_LatestIsMaximum ==
    /\ (/\ call.op = "_GenerateVersionedDirs"
        /\ call.dir_filter = Latest
        /\ VersionDirs(call.working_dir) # {})
       => /\ call.result.err = ""
          /\ Len(call.result.out) = 1
          /\ IsMaximum(call.result.out[1].version, call.working_dir)
          /\ IsVersionBranch(call.result.out[1].dir, call.result.out[1].version,
                             call.working_dir)
    /\ (/\ call.op = "GenerateToolInfos"
        /\ call.version_filter = Latest
        /\ VersionDirs(call.tool_dir) # {})
       => \A i \in DOMAIN call.result.out :
            /\ IsMaximum(call.result.out[i].version, call.tool_dir)
            /\ IsVersionBranch(VersionBranch(call.result.out[i]), call.result.out[i].version,
                               call.tool_dir)
            /\ VersionBranch(call.result.out[i]) = VersionBranch(call.result.out[1])
    /\ call.op = "GetAllToolInfos"
       => \A i \in DOMAIN call.result.results :
            LET ti == call.result.results[i]
            IN  (/\ \A tv \in call.tool_versions : tv[1] # ti.name
                 /\ VersionDirs(ti.root_directory) # {})
                => IsMaximum(ti.version, ti.root_directory)
    /\ Coerce(RemovePrefix("v2.3.4", "v")) = Coerce(RemovePrefix("2.3.4", "v"))
    /\ Coerce(RemovePrefix("v2.3.4", "v")).version = <<2, 3, 4>>

\* C2's case: "latest" among 1.9, v1.9.0 and 1.10
C2_Witness ==
    /\ call.op = "GenerateToolInfos"
    /\ call.version_filter = Latest
    /\ {Join(call.tool_dir, "1.9"), Join(call.tool_dir, "v1.9.0"),
        Join(call.tool_dir, "1.10")} \subseteq dirs
    /\ Len(call.result.out) = 1
    /\ call.result.out[1].version = <<1, 10, 0>>

\* C3: with no version filter, the branches are the subdirectories whose
\* name coerces, one branch each (other subdirectories and plain files give
\* none), in descending version order.
C3_NoFilterYieldsEveryVersion ==
    /\ (/\ call.op = "_GenerateVersionedDirs"
        /\ call.dir_filter = NoFilter
        /\ VersionDirs(call.working_dir) # {})
       => LET out == call.result.out
          IN  /\ call.result.err = ""
              /\ {out[i].dir : i \in DOMAIN out} = VersionDirs(call.working_dir)
              /\ Len(out) = Cardinality(VersionDirs(call.working_dir))
              /\ \A i \in DOMAIN out : out[i].version = ExpectedVersion(PathName(out[i].dir))
              /\ \A i, j \in DOMAIN out :
                    i < j => Precedence(out[i].version) >= Precedence(out[j].version)
    /\ (/\ call.op = "GenerateToolInfos"
        /\ call.version_filter = NoFilter
        /\ VersionDirs(call.tool_dir) # {})
       => LET out == call.result.out
          IN  /\ \A i \in DOMAIN out :
                    IsVersionBranch(VersionBranch(out[i]), out[i].version, call.tool_dir)
              /\ \A i, j \in DOMAIN out :
                    i < j => Precedence(out[i].version) >= Precedence(out[j].version)
              /\ call.result.err = ""
                 => {VersionBranch(out[i]) : i \in DOMAIN out} = VersionDirs(call.tool_dir)

\* C3's case: 1.9 and 1.10 beside a plain file
C3_Witness ==
    /\ call.op = "GenerateToolInfos"
    /\ call.version_filter = NoFilter
    /\ {Join(call.tool_dir, "1.9"), Join(call.tool_dir, "1.10")} \subseteq dirs
    /\ \E f \in files : PathParent(f) = call.tool_dir
    /\ Len(call.result.out) = 2
    /\ call.result.out[1].version = <<1, 10, 0>>
    /\ call.result.out[2].version = <<1, 9, 0>>

\* the tools of the tools directory that pass the include / exclude filter
\* of the recorded call, in listing order
ShouldProcess(tool_name) ==
    /\ tool_name \notin call.exclude_tools
    /\ call.include_tools = {} \/ tool_name \in call.include_tools

Passing == SelectSeq(IterDir(ToolsDir), LAMBDA p : p \in dirs /\ ShouldProcess(PathName(p)))

\* what resolving one tool gives under the arguments of the recorded
\* GetAllToolInfos call
Resolve(tool_directory) ==
    GenerateToolInfos(tool_directory,
                      IF \E tv \in call.tool_versions : tv[1] = PathName(tool_directory)
                      THEN Pinned((CHOOSE tv \in call.tool_versions :
                                      tv[1] = PathName(tool_directory))[2])
                      ELSE Latest,
                      call.operating_system, call.architecture,
                      call.allow_generic_operating_systems, call.allow_generic_architectures)

Errors(sink) == SelectSeq(sink, LAMBDA e : e.level = "error")

\* C4: GetAllToolInfos returns, in listing order, the one ToolInfo of every
\* subdirectory that passes the include / exclude filter and resolves; the
\* error of every other passing tool is written, and none of them keeps a
\* tool before or after it from being returned.
C4_ErrorsNeverAbort ==
    call.op = "GetAllToolInfos"
    => LET resolved == SelectSeq(Passing, LAMBDA p : Resolve(p).err = "")
           failed == SelectSeq(Passing, LAMBDA p : Resolve(p).err # "")
           errors == Errors(call.result.dm.sink)
       IN  /\ call.result.raised = ""
           /\ Len(call.result.results) = Len(resolved)
           /\ \A i \in DOMAIN resolved : call.result.results[i] = Resolve(resolved[i]).out[1]
           /\ Len(errors) = Len(failed)
           /\ \A i \in DOMAIN failed : errors[i].text = Resolve(failed[i]).err

\* C4's case: a tool that fails is listed before a tool that is returned
C4_Witness ==
    /\ call.op = "GetAllToolInfos"
    /\ \E i, j \in DOMAIN Passing :
        /\ i < j
        /\ Resolve(Passing[i]).err # ""
        /\ Resolve(Passing[j]).err = ""
        /\ \E k \in DOMAIN call.result.results :
              call.result.results[k].name = PathName(Passing[j])
    /\ Errors(call.result.dm.sink) # <<>>

\* what Lib.GetToolInfos does with one tool when no tool came before it
ResolvesAlone(tool_directory) ==
    GetToolInfosStep([results |-> <<>>, dm |-> NewDoneManager, processed |-> <<>>, raised |-> ""],
                     tool_directory, call.include_tools, call.exclude_tools, call.tool_versions,
                     call.operating_system, call.architecture,
                     call.no_generic_operating_systems,
                     call.no_generic_architectures).results # <<>>

\* C5: Lib.GetToolInfos returns every tool whose own version, OS and
\* architecture levels resolve, whatever happened to the tools listed
\* before it.
C5_FailureLeavesLaterToolsAlone ==
    call.op = "GetToolInfos"
    => \A i \in DOMAIN Passing :
          ResolvesAlone(Passing[i])
          => \E k \in DOMAIN call.result.results :
                call.result.results[k].name = PathName(Passing[i])

\* C5's case: T1 is pinned to a version it has no directory for and is
\* listed before T2, which has no levels at all
C5_Witness ==
    /\ call.op = "GetToolInfos"
    /\ ~listRev
    /\ call.include_tools = {} /\ call.exclude_tools = {}
    /\ call.tool_versions = {<<"T1", <<3, 0, 0>>>>}
    /\ dirs = {ToolsDir, Join(ToolsDir, "T1"), Join(ToolsDir, "T2"),
               Join(Join(ToolsDir, "T1"), "1.9")}
    /\ files = {}
    /\ call.result.results = <<>>

\* the text of a version, for the versions a call pins
VersionText(v) ==
    IF v = <<1, 9, 0>> THEN "1.9.0"
    ELSE IF v = <<1, 10, 0>> THEN "1.10.0"
    ELSE IF v = <<3, 0, 0>> THEN "3.0.0"
    ELSE "?"

ExpectedVersionError(version, tool_name, working_dir) ==
    "No directory found for version '" \o VersionText(version) \o "' for the tool '"
        \o tool_name \o "' in '" \o PathStr(working_dir) \o "'."

HasVersionDir(working_dir, version) ==
    \E d \in VersionDirs(working_dir) : ExpectedVersion(PathName(d)) = version

IsLeftOutWithError(tool_name, version) ==
    /\ \A k \in DOMAIN call.result.results : call.result.results[k].name # tool_name
    /\ \E e \in DOMAIN call.result.dm.sink :
          /\ call.result.dm.sink[e].level = "error"
          /\ call.result.dm.sink[e].text =
                ExpectedVersionError(version, tool_name, Join(ToolsDir, tool_name))

\* C6 as stated: in GetAllToolInfos, a tool pinned to a version that none of
\* its subdirectories coerces to is left out, with the error written.
C6_PinnedWithoutDirectoryIsLeftOut ==
    call.op = "GetAllToolInfos"
    => \A tv \in call.tool_versions :
          (/\ Join(ToolsDir, tv[1]) \in dirs
           /\ ~HasVersionDir(Join(ToolsDir, tv[1]), tv[2]))
          => IsLeftOutWithError(tv[1], tv[2])

\* C6, amended: in GetAllToolInfos, a tool that passes the include / exclude
\* filter, has at least one version subdirectory and is pinned to a version
\* that none of them coerces to, is left out, with the error naming the
\* tool, the version and the directory written; every passing tool is still
\* processed.  A pinned tool with no version subdirectory at all gets no
\* such error: its ToolInfo, if it resolves, has no version.
C6_PinnedAmongOtherVersionsIsLeftOut ==
    call.op = "GetAllToolInfos"
    => /\ \A tv \in call.tool_versions :
            LET tool_directory == Join(ToolsDir, tv[1])
            IN  /\ (/\ tool_directory \in dirs
                    /\ ShouldProcess(tv[1])
                    /\ VersionDirs(tool_directory) # {}
                    /\ ~HasVersionDir(tool_directory, tv[2]))
                   => IsLeftOutWithError(tv[1], tv[2])
                /\ (/\ tool_directory \in dirs
                    /\ VersionDirs(tool_directory) = {})
                   => /\ \A e \in DOMAIN call.result.dm.sink :
                            call.result.dm.sink[e].text #
                                ExpectedVersionError(tv[2], tv[1], tool_directory)
                      /\ \A k \in DOMAIN call.result.results :
                            call.result.results[k].name = tv[1]
                            => call.result.results[k].version = None
       /\ call.result.processed = [i \in DOMAIN Passing |-> PathName(Passing[i])]

\* C6's case: T1 has 1.9 only and is pinned to 3.0.0; T2 is returned
C6_Witness ==
    /\ call.op = "GetAllToolInfos"
    /\ call.tool_versions = {<<"T1", <<3, 0, 0>>>>}
    /\ Join(Join(ToolsDir, "T1"), "1.9") \in dirs
    /\ IsLeftOutWithError("T1", <<3, 0, 0>>)
    /\ \E k \in DOMAIN call.result.results : call.result.results[k].name = "T2"

\* C7: with at least one version subdirectory, a pinned version that one of
\* them coerces to yields the branch of that version and no other; a pinned
\* version that none coerces to yields nothing and raises ValueError "No
\* directory found for version '<requested>' for the tool '<name>' in
\* '<tool directory>'.".
C7_PinnedVersion ==
    /\ (/\ call.op = "_GenerateVersionedDirs"
        /\ call.dir_filter.kind = "SemVer"
        /\ VersionDirs(call.working_dir) # {})
       => IF HasVersionDir(call.working_dir, call.dir_filter.version)
          THEN /\ call.result.err = ""
               /\ Len(call.result.out) = 1
               /\ call.result.out[1].version = call.dir_filter.version
               /\ IsVersionBranch(call.result.out[1].dir, call.dir_filter.version,
                                  call.working_dir)
          ELSE /\ call.result.out = <<>>
               /\ call.result.err = ExpectedVersionError(call.dir_filter.version, call.tool_name,
                                                         call.working_dir)
    /\ (/\ call.op = "GenerateToolInfos"
        /\ call.version_filter.kind = "SemVer"
        /\ VersionDirs(call.tool_dir) # {})
       => IF HasVersionDir(call.tool_dir, call.version_filter.version)
          THEN \A i \in DOMAIN call.result.out :
                  /\ call.result.out[i].version = call.version_filter.version
                  /\ IsVersionBranch(VersionBranch(call.result.out[i]),
                                     call.version_filter.version, call.tool_dir)
                  /\ VersionBranch(call.result.out[i]) = VersionBranch(call.result.out[1])
          ELSE /\ call.result.out = <<>>
               /\ call.result.err = ExpectedVersionError(call.version_filter.version,
                                                         PathName(call.tool_dir), call.tool_dir)

\* C7's case: 3.0.0 requested of a tool that has 1.9 and 1.10
C7_Witness ==
    /\ call.op = "GenerateToolInfos"
    /\ call.version_filter = Pinned(<<3, 0, 0>>)
    /\ {Join(call.tool_dir, "1.9"), Join(call.tool_dir, "1.10")} \subseteq dirs
    /\ call.result.out = <<>>
    /\ call.result.err = "No directory found for version '3.0.0' for the tool 'T1' in '/Tools/T1'."

IsNotFoundError(msg) ==
    LET prefix == "No directory found for"
    IN  Len(msg) >= Len(prefix) /\ SubSeq(msg, 1, Len(prefix)) = prefix

\* C8: with the version filter "latest" or pinned and both platform
\* filters given, resolving a tool either raises a not-found ValueError and
\* yields nothing, or yields exactly one ToolInfo; so GetAllToolInfos never
\* fails its assertion, writes not-found errors only, and accounts for every
\* tool it resolves by one ToolInfo or one error.
C8_OneToolInfoOrNotFound ==
    /\ (/\ call.op = "GenerateToolInfos"
        /\ call.version_filter # NoFilter
        /\ call.operating_system_filter # NoneType
        /\ call.architecture_filter # NoneType)
       => \/ IsNotFoundError(call.result.err) /\ call.result.out = <<>>
          \/ call.result.err = "" /\ Len(call.result.out) = 1
    /\ call.op = "GetAllToolInfos"
       => LET errors == Errors(call.result.dm.sink)
              results == call.result.results
          IN  /\ call.result.raised = ""
              /\ \A e \in DOMAIN errors : IsNotFoundError(errors[e].text)
              /\ Len(results) + Len(errors) = Len(call.result.processed)
              /\ \A i, j \in DOMAIN results : i # j => results[i].name # results[j].name

\* C8's case: GetAllToolInfos on a tool with several version directories,
\* one of which has OS directories
C8_Witness ==
    /\ call.op = "GetAllToolInfos"
    /\ Cardinality(VersionDirs(Join(ToolsDir, "T1"))) >= 2
    /\ \E d \in dirs : Len(d) = Len(ToolsDir) + 3
    /\ Len(call.result.results) = 1
    /\ Errors(call.result.dm.sink) = <<>>

\* C9: every ToolInfo GenerateToolInfos yields has binary_directory equal to
\* versioned_directory/bin when that is a directory and to
\* versioned_directory otherwise, and root_directory equal to or above
\* versioned_directory.
C9_BinaryDirectory ==
    (call.op \in {"GenerateToolInfos", "GetAllToolInfos"})
    => LET yielded == IF call.op = "GenerateToolInfos" THEN call.result.out
                      ELSE call.result.results
       IN  \A i \in DOMAIN yielded :
              /\ yielded[i].binary_directory =
                    IF Append(yielded[i].versioned_directory, "bin") \in dirs
                    THEN Append(yielded[i].versioned_directory, "bin")
                    ELSE yielded[i].versioned_directory
              /\ IsPrefix(yielded[i].root_directory, yielded[i].versioned_directory)

\* C9's case: a "bin" directory below a directory selected below the root
C9_Witness ==
    /\ call.op = "GenerateToolInfos"
    /\ \E i \in DOMAIN call.result.out :
          /\ call.result.out[i].versioned_directory # call.result.out[i].root_directory
          /\ call.result.out[i].binary_directory # call.result.out[i].versioned_directory

\* C10: GetAllToolInfos and GenerateManifest process a subdirectory of the
\* tools directory if and only if its name is not excluded and the include
\* set is empty or holds it; a name in both sets is not processed; an entry
\* that is no directory is not processed and not even reported as filtered.
C10_IncludeExclude ==
    (call.op \in {"GetAllToolInfos", "GenerateManifest"})
    => LET processed == call.result.processed
           sink == call.result.dm.sink
       IN  /\ processed = [i \in DOMAIN Passing |-> PathName(Passing[i])]
           /\ \A n \in Range(AllNames) :
                 (\E i \in DOMAIN processed : processed[i] = n)
                 <=> /\ Join(ToolsDir, n) \in dirs
                     /\ n \notin call.exclude_tools
                     /\ call.include_tools = {} \/ n \in call.include_tools
           /\ \A n \in call.include_tools \cap call.exclude_tools :
                 \A i \in DOMAIN processed : processed[i] # n
           /\ \A f \in files :
                 PathParent(f) = ToolsDir
                 => /\ \A i \in DOMAIN processed : processed[i] # PathName(f)
                    /\ \A e \in DOMAIN sink :
                          sink[e].text \notin
                              {"'" \o PathName(f) \o "' has been explicitly excluded.\n",
                               "'" \o PathName(f) \o "' has not been explicitly included.\n"}
           /\ call.op = "GetAllToolInfos"
              => \A k \in DOMAIN call.result.results :
                    \E i \in DOMAIN processed : processed[i] = call.result.results[k].name
           /\ call.op = "GenerateManifest"
              => \A k \in DOMAIN call.result.tools :
                    \E i \in DOMAIN processed : processed[i] = call.result.tools[k].name

\* C10's case: T1 is included and excluded, T2 is included, T3 is a file
C10_Witness ==
    /\ call.op = "GenerateManifest"
    /\ call.include_tools = {"T1", "T2"}
    /\ call.exclude_tools = {"T1"}
    /\ {Join(ToolsDir, "T1"), Join(ToolsDir, "T2")} \subseteq dirs
    /\ Join(ToolsDir, "T3") \in files
    /\ call.result.processed = <<"T2">>
    /\ Len(call.result.tools) = 1

\* the attribute a recognized directory name stands for
ExpectedAttribute(n, enumeration) ==
    IF n = "Generic" THEN [kind |-> "str", name |-> "Generic"]
    ELSE [kind |-> enumeration, name |-> n]

\* the branches of one level below working_dir: its recognized
\* subdirectories, or working_dir itself with no attribute when it has none
ExpectedBranches(working_dir, names, enumeration) ==
    IF HasRecognized(working_dir, names)
    THEN {[dir |-> Join(working_dir, n), type |-> ExpectedAttribute(n, enumeration)] :
            n \in {m \in names : Join(working_dir, m) \in dirs}}
    ELSE {[dir |-> working_dir, type |-> [kind |-> "None", name |-> ""]]}

ExpectedVersionBranches(tool_dir) ==
    IF VersionDirs(tool_dir) = {}
    THEN {[dir |-> tool_dir, version |-> <<>>]}
    ELSE {[dir |-> d, version |-> ExpectedVersion(PathName(d))] : d \in VersionDirs(tool_dir)}

\* every (version, OS, architecture) combination found below tool_dir
ExpectedConfigurations(tool_dir) ==
    UNION {UNION {{[version |-> v.version, operating_system |-> o.type,
                    architecture |-> a.type, versioned_directory |-> a.dir] :
                        a \in ExpectedBranches(o.dir, RecognizedArchNames, "ArchitectureType")} :
                    o \in ExpectedBranches(v.dir, RecognizedOsNames, "OperatingSystemType")} :
            v \in ExpectedVersionBranches(tool_dir)}

\* C11: with the version, OS and architecture filters all absent,
\* GenerateToolInfos does not raise and yields at least one ToolInfo: exactly
\* one for every combination of a version directory (or none, when no name
\* coerces), a recognized OS subdirectory of it (or none) and a recognized
\* architecture subdirectory of that (or none); names are matched exactly
\* ("linux" is not Linux) and other names are ignored.
C11_AllConfigurations ==
    (/\ call.op = "GenerateToolInfos"
     /\ call.version_filter = NoFilter
     /\ call.operating_system_filter = NoneType
     /\ call.architecture_filter = NoneType)
    => LET out == call.result.out
       IN  /\ call.result.err = ""
           /\ Len(out) >= 1
           /\ Len(out) = Cardinality(ExpectedConfigurations(call.tool_dir))
           /\ {[version |-> out[i].version, operating_system |-> out[i].operating_system,
                architecture |-> out[i].architecture,
                versioned_directory |-> out[i].versioned_directory] : i \in DOMAIN out}
                  = ExpectedConfigurations(call.tool_dir)
           /\ \A i \in DOMAIN out :
                /\ out[i].name = PathName(call.tool_dir)
                /\ out[i].root_directory = call.tool_dir

\* C11's case: "Linux" and "Generic" beside "linux", all filters absent
C11_Witness ==
    /\ call.op = "GenerateToolInfos"
    /\ call.version_filter = NoFilter
    /\ call.operating_system_filter = NoneType
    /\ call.architecture_filter = NoneType
    /\ {Join(call.tool_dir, "Linux"), Join(call.tool_dir, "Generic"),
        Join(call.tool_dir, "linux")} \subseteq dirs
    /\ Len(call.result.out) = 2

\* the eight attribute subsets, in the order of the root tier
SuffixSubsets ==
    <<[v |-> FALSE, o |-> FALSE, a |-> FALSE], [v |-> TRUE, o |-> FALSE, a |-> FALSE],
      [v |-> FALSE, o |-> TRUE, a |-> FALSE], [v |-> TRUE, o |-> TRUE, a |-> FALSE],
      [v |-> FALSE, o |-> FALSE, a |-> TRUE], [v |-> TRUE, o |-> FALSE, a |-> TRUE],
      [v |-> FALSE, o |-> TRUE, a |-> TRUE], [v |-> TRUE, o |-> TRUE, a |-> TRUE]>>

\* the candidate files of one tier: in directory dir, one name for every
\* subset of the attributes the tier may use (use) that the ToolInfo has
ExpectedTier(ti, dir, use) ==
    LET has == [v |-> ti.version # <<>>, o |-> ti.operating_system.kind # "None",
                a |-> ti.architecture.kind # "None"]
        subsets == SelectSeq(SuffixSubsets,
                             LAMBDA c : /\ c.v => (use.v /\ has.v)
                                        /\ c.o => (use.o /\ has.o)
                                        /\ c.a => (use.a /\ has.a))
    IN  [i \in DOMAIN subsets |->
            Append(dir, ti.name
                        \o (IF subsets[i].v THEN "-v" \o VersionText(ti.version) ELSE "")
                        \o (IF subsets[i].o THEN "-" \o ti.operating_system.name ELSE "")
                        \o (IF subsets[i].a THEN "-" \o ti.architecture.name ELSE "")
                        \o ".env")]

ExpectedEnvFiles(ti) ==
    ExpectedTier(ti, ti.root_directory, [v |-> TRUE, o |-> TRUE, a |-> TRUE])
    \o (IF ti.version = <<>> THEN <<>>
        ELSE ExpectedTier(ti, VersionBranch(ti), [v |-> FALSE, o |-> TRUE, a |-> TRUE]))
    \o (IF ti.operating_system.kind = "None" THEN <<>>
        ELSE ExpectedTier(ti, OsBranch(ti), [v |-> FALSE, o |-> FALSE, a |-> TRUE]))
    \o (IF ti.architecture.kind = "None" THEN <<>>
        ELSE ExpectedTier(ti, ti.versioned_directory, [v |-> FALSE, o |-> FALSE, a |-> FALSE]))

\* C12: GeneratePotentialEnvFiles yields the root-tier names first, one for
\* every subset of the attributes that are present, in the order bare,
\* version, OS, version+OS, architecture, version+architecture,
\* OS+architecture, version+OS+architecture (suffixes composed as
\* -v<version>, -<OS>, -<Architecture>); then the version tier over the OS /
\* architecture subsets, then the OS tier over the architecture, then the
\* bare name at the architecture tier: 15 paths when all three are present.
C12_EnvFileOrder ==
    call.op = "GeneratePotentialEnvFiles"
    => /\ call.result.err = ""
       /\ call.result.out = ExpectedEnvFiles(call.self)
       /\ (/\ call.self.version # <<>>
           /\ call.self.operating_system.kind # "None"
           /\ call.self.architecture.kind # "None")
          => Len(call.result.out) = 15

\* C12's case: a ToolInfo with a version, an OS and an architecture
C12_Witness ==
    /\ call.op = "GeneratePotentialEnvFiles"
    /\ call.self.version = <<1, 9, 0>>
    /\ call.self.operating_system.name = "Linux"
    /\ call.self.architecture.name = "x64"
    /\ Len(call.result.out) = 15
    /\ call.result.out[8] = Append(call.self.root_directory, "T1-v1.9.0-Linux-x64.env")
    /\ call.result.out[15] = Append(call.self.versioned_directory, "T1.env")

\* what a line of an environment file says: <<key, value>>, <<>> for the
\* empty line, <<"?">> for a line that is no statement
ExpectedBinding(line) ==
    IF line = "A=1" THEN <<"A", "1">>
    ELSE IF line = "B=./bin" THEN <<"B", "./bin">>
    ELSE IF line = "D=" THEN <<"D", "">>
    ELSE IF line = "B=2" THEN <<"B", "2">>
    ELSE IF line = "C=../up/./x" THEN <<"C", "../up/./x">>
    ELSE IF line = "C=3" THEN <<"C", "3">>
    ELSE IF line = "A=lib./x" THEN <<"A", "lib./x">>
    ELSE IF line = "C=.\\w;./y" THEN <<"C", ".\\w;./y">>
    ELSE IF line = "" THEN <<>>
    ELSE <<"?">>

FailsToParse(f) == \E i \in DOMAIN contents[f] : ExpectedBinding(contents[f][i]) = <<"?">>

\* the candidate environment files of a ToolInfo that exist, least specific first
ExistingEnvFiles(ti) == SelectSeq(ExpectedEnvFiles(ti), LAMBDA f : f \in DOMAIN contents)

RECURSIVE Flatten(_)
Flatten(seqs) == IF seqs = <<>> THEN <<>> ELSE Head(seqs) \o Flatten(Tail(seqs))

\* the definitions a ToolInfo's environment files contribute, in reading
\* order: [key, value, file]
EnvDefinitions(ti) ==
    LET Definitions(f, lines) ==
            [i \in DOMAIN lines |->
                [key |-> ExpectedBinding(lines[i])[1],
                 value |-> ExpectedBinding(lines[i])[2],
                 file |-> f]]
        FileDefinitions(f) ==
            IF FailsToParse(f) THEN <<>>
            ELSE Definitions(f, SelectSeq(contents[f],
                                          LAMBDA line : ExpectedBinding(line) # <<>>))
        All(existing) == Flatten([i \in DOMAIN existing |-> FileDefinitions(existing[i])])
    IN  All(ExistingEnvFiles(ti))

\* the positions of the Augment commands in a command list, and the commands
\* between the i-th Augment and the next one
AugmentPositions(commands) ==
    SelectSeq([i \in DOMAIN commands |-> i], LAMBDA i : commands[i].type = "Augment")
ToolSegment(commands, i) ==
    LET at == AugmentPositions(commands)
    IN  SubSeq(commands, at[i] + 1, IF i < Len(at) THEN at[i + 1] - 1 ELSE Len(commands))
SetCommands(commands, i) == SelectSeq(ToolSegment(commands, i), LAMBDA c : c.type = "Set")

FirstDefinition(defs, key) == CHOOSE i \in DOMAIN defs :
    defs[i].key = key /\ \A j \in 1..(i - 1) : defs[j].key # key
LastDefinition(defs, key) == CHOOSE i \in DOMAIN defs :
    defs[i].key = key /\ \A j \in (i + 1)..Len(defs) : defs[j].key # key

\* C13: the environment files of a tool are merged key by key in the order
\* in which GeneratePotentialEnvFiles yields them: one Set per distinct key,
\* carrying the value of the last existing file that defines the key, the
\* keys in the order in which they were first defined.
C13_EnvFilesMerge ==
    call.op = "CreateShellCommands"
    => /\ Len(AugmentPositions(call.result.commands)) = Len(call.tool_infos)
       /\ \A t \in DOMAIN call.tool_infos :
            LET defs == EnvDefinitions(call.tool_infos[t])
                sets == SetCommands(call.result.commands, t)
            IN  /\ {sets[i].name : i \in DOMAIN sets} = {defs[i].key : i \in DOMAIN defs}
                /\ \A i, j \in DOMAIN sets : sets[i].name = sets[j].name => i = j
                /\ \A i \in DOMAIN sets :
                     LET last == defs[LastDefinition(defs, sets[i].name)]
                     IN  sets[i].value_or_values = RelativePathSub(last.value, last.file, 1)
                /\ \A i, j \in DOMAIN sets :
                     i < j => FirstDefinition(defs, sets[i].name)
                                 < FirstDefinition(defs, sets[j].name)

\* C13's case: a tool whose version tier redefines B after the root tier
\* defined A, B and D, and adds C
C13_Witness ==
    /\ call.op = "CreateShellCommands"
    /\ Len(call.tool_infos) = 1
    /\ call.tool_infos[1].version = <<1, 9, 0>>
    /\ Len(ExistingEnvFiles(call.tool_infos[1])) = 2
    /\ LET sets == SetCommands(call.result.commands, 1)
       IN  /\ [i \in DOMAIN sets |-> sets[i].name] = <<"A", "B", "D", "C">>
           /\ sets[2].value_or_values = "2"

\* the keys the lines of an environment file define
FileKeys(f) ==
    {ExpectedBinding(contents[f][i])[1] :
        i \in {j \in DOMAIN contents[f] : Len(ExpectedBinding(contents[f][j])) = 2}}

\* the error reported for an environment file with a line that is no statement
ExpectedParseError(f) ==
    LET bad == CHOOSE i \in DOMAIN contents[f] :
                  /\ ExpectedBinding(contents[f][i]) = <<"?">>
                  /\ \A j \in 1..(i - 1) : ExpectedBinding(contents[f][j]) # <<"?">>
    IN  "Unable to process the environment file '" \o PathStr(f)
            \o "': python-dotenv could not parse statement starting at line "
            \o ToString(bad) \o "\n"

SegmentSeparators == {"/", "\\", ";", ":"}

\* a value with every "./" and ".\" that begins a path segment replaced by
\* the directory dir and one path separator, from position i on
RECURSIVE ExpandedFrom(_, _, _)
ExpandedFrom(value, dir, i) ==
    IF i > Len(value) THEN ""
    ELSE IF /\ SubSeq(value, i, i) = "."
            /\ i < Len(value)
            /\ SubSeq(value, i + 1, i + 1) \in {"/", "\\"}
            /\ (i = 1 \/ SubSeq(value, i - 1, i - 1) \in SegmentSeparators)
         THEN PathStr(dir) \o "/" \o ExpandedFrom(value, dir, i + 2)
         ELSE SubSeq(value, i, i) \o ExpandedFrom(value, dir, i + 1)

\* C15: in every value of an environment file, each "./" or ".\" that begins
\* a path segment (at the start of the value or directly after a separator)
\* is replaced by the directory of the environment file and one path
\* separator; "../" and "..\" are never rewritten, and no other part of the
\* value is changed.
C15_RelativePathExpansion ==
    call.op = "CreateShellCommands"
    => \A t \in DOMAIN call.tool_infos :
          LET defs == EnvDefinitions(call.tool_infos[t])
              sets == SetCommands(call.result.commands, t)
          IN  \A i \in DOMAIN sets :
                 \E d \in DOMAIN defs :
                    /\ defs[d].key = sets[i].name
                    /\ sets[i].value_or_values
                         = ExpandedFrom(defs[d].value, PathParent(defs[d].file), 1)

\* C15's case: a value with "./" in the middle of a path segment, which
\* CreateShellCommands rewrites
C15_Witness ==
    /\ call.op = "CreateShellCommands"
    /\ Len(call.tool_infos) = 1
    /\ ExistingEnvFiles(call.tool_infos[1]) = <<Append(ToolsDir \o <<"T1">>, "T1.env")>>
    /\ contents[Append(ToolsDir \o <<"T1">>, "T1.env")] = <<"A=lib./x", "C=.\\w;./y">>
    /\ LET sets == SetCommands(call.result.commands, 1)
       IN  /\ Len(sets) = 2
           /\ sets[1].name = "A"
           /\ sets[1].value_or_values = "lib/Tools/T1/x"
           /\ sets[2].value_or_values = "/Tools/T1/w;/Tools/T1/y"

\* the keys of the merged environment configuration of a ToolInfo
MergedKeys(ti) ==
    LET Keys(defs) == {defs[i].key : i \in DOMAIN defs}
    IN  Keys(EnvDefinitions(ti))

EntryCount(dialect, st, name, value) ==
    LET Count(entries) == Cardinality({i \in DOMAIN entries : entries[i] = value})
    IN  Count(Split(Get(st.env, EnvName(dialect, name)), ListSeparator(dialect)))

\* a script that is the same Augment of PATH twice
IsAugmentTwice ==
    /\ mode = "shell"
    /\ script.stage = "run"
    /\ Len(script.commands) = 2
    /\ script.commands[1].type = "Augment"
    /\ script.commands[2] = script.commands[1]

\* C17: in each of the three dialects, running the rendering of Augment(var,
\* X) twice in a row leaves X exactly once among the separator-delimited
\* entries of var, whether var was unset, empty, without X, or already held
\* X as an entry; X inside a longer entry does not count as present.
C17_AugmentTwiceAddsOnce ==
    IsAugmentTwice
    => /\ script.final.done = "running"
       /\ EntryCount(script.dialect, script.final, script.commands[1].name,
                     script.commands[1].value_or_values) = 1

\* C17's case: the Batch rendering run twice on a PATH without the value:
\* cmd.exe rejects the IF of the guard, and PATH is left without the value
C17_Witness ==
    /\ IsAugmentTwice
    /\ script.dialect = "Batch"
    /\ Get(script.initial.env, "PATH") = "/a"
    /\ Contains(script.text, "if %ERRORLEVEL% EQ 0 goto skip_")
    /\ script.final.done = "error"
    /\ Get(script.final.env, "PATH") = "/a"

\* C18: running the Bash rendering of Augment ends with status 0, each
\* guarded export being followed by a line "true", whether the value is
\* added or already present; so an ExitOnError rendered directly after an
\* Augment never exits the script.
C18_BashAugmentLeavesStatusZero ==
    (/\ mode = "shell"
     /\ script.stage = "run"
     /\ script.dialect = "Bash"
     /\ script.commands[1].type = "Augment")
    => /\ Len(script.commands) = 1
          => /\ script.final.status = 0
             /\ LET lines == Split(script.text, "\n")
                IN  \A i \in DOMAIN lines :
                       StartsWithAt(lines[i], 1, "[[ ")
                       => i < Len(lines) /\ lines[i + 1] = "true"
       /\ (/\ Len(script.commands) = 2
           /\ script.commands[2].type = "ExitOnError"
           /\ "variable_name" \notin DOMAIN script.commands[2])
          => script.final.done = "running"

\* C18's case: PATH already holds the value; the guard fails, and the
\* ExitOnError that follows the Augment exits the script with status 1
C18_Witness ==
    /\ mode = "shell"
    /\ script.stage = "run"
    /\ script.dialect = "Bash"
    /\ script.commands
         = <<[type |-> "Augment", name |-> "PATH", value_or_values |-> "/t",
              append_values |-> FALSE],
             [type |-> "ExitOnError", use_return_statement |-> FALSE]>>
    /\ Get(script.initial.env, "PATH") = "/a:/t:/b"
    /\ script.initial.status = 0
    /\ script.final.done = "exit"
    /\ script.final.code = 1

\* the lines of a text that ends with a newline, or of a text that does not
TextLines(text) == IF text = "" THEN <<>> ELSE Split(RemoveSuffix(text, "\n"), "\n")

RECURSIVE SumOf(_)
SumOf(numbers) == IF numbers = <<>> THEN 0 ELSE Head(numbers) + SumOf(Tail(numbers))

\* C19: for every command kind and every dialect, Accept returns None or a
\* text that ends with a newline, so that the renderings of a command list
\* written one after the other never put statements of two commands on one
\* line.
C19_RenderingsEndWithNewline ==
    (mode = "shell" /\ script.stage # "building")
    => LET Rendering(i) == Accept(script.dialect, script.commands[i], UniqueId(1, i))
           LineCount(i) == IF Rendering(i) = <<>> THEN 0 ELSE Len(TextLines(Rendering(i)[1]))
       IN  /\ \A i \in DOMAIN script.commands :
                Rendering(i) = <<>> \/ EndsWith(Rendering(i)[1], "\n")
           /\ Len(TextLines(script.text))
                = SumOf([i \in DOMAIN script.commands |-> LineCount(i)])

\* C19's case: the Batch script of EchoOff and an Augment, as Activate writes
\* the first commands of CreateShellCommands: the first line holds the
\* statements of both commands
C19_Witness ==
    /\ mode = "shell"
    /\ script.stage = "written"
    /\ script.dialect = "Batch"
    /\ Len(script.commands) = 2
    /\ script.commands[1].type = "EchoOff"
    /\ script.commands[2].type = "Augment"
    /\ Split(script.text, "\n")[1] = "@echo offREM /t"

\* a script that is one ExitOnError
IsExitOnErrorAlone ==
    /\ mode = "shell"
    /\ script.stage = "run"
    /\ Len(script.commands) = 1
    /\ script.commands[1].type = "ExitOnError"

\* the status an ExitOnError consults: the named variable if there is one,
\* else the status of the last statement
ConsultedStatus(command, st) ==
    IF "variable_name" \in DOMAIN command
    THEN IF command.variable_name = "MY_ERR" /\ st.env["MY_ERR"] = "2" THEN 2 ELSE 0
    ELSE st.status

\* C20: in every dialect, the rendering of an ExitOnError with a return_code
\* exits or returns with exactly that return_code (0 included) when the
\* consulted status is not zero; without a return_code it exits with the
\* consulted status; a status of zero lets the script go on.
C20_ExitOnErrorCode ==
    IsExitOnErrorAlone
    => LET command == script.commands[1]
           consulted == ConsultedStatus(command, script.initial)
       IN  IF consulted = 0
           THEN script.final.done = "running"
           ELSE /\ script.final.done \in {"exit", "return"}
                /\ script.final.code = IF "return_code" \in DOMAIN command
                                       THEN command.return_code
                                       ELSE consulted

\* C20's case: the Bash rendering of ExitOnError(return_code=0) run after a
\* statement that left status 3: the script exits with 3
C20_Witness ==
    /\ IsExitOnErrorAlone
    /\ script.dialect = "Bash"
    /\ "return_code" \in DOMAIN script.commands[1]
    /\ script.commands[1].return_code = 0
    /\ ~script.commands[1].use_return_statement
    /\ script.initial.status = 3
    /\ Contains(script.text, "    exit $error_code\n")
    /\ script.final.done = "exit"
    /\ script.final.code = 3

\* the twelve command kinds of Shell/Commands.py
CommandKinds ==
    {"Message", "Call", "Execute", "Set", "Augment", "Exit", "ExitOnError", "EchoOff",
     "PersistError", "PushDirectory", "PopDirectory", "Raw"}

\* C21: Accept calls, for a command of one of the twelve kinds and in each
\* dialect, exactly the handler of that kind, once, and returns what that
\* handler returns; for a command of any other class it calls no handler and
\* raises TypeError "No handler for command type: '<class name>'".
C21_AcceptDispatch ==
    call.op = "Accept" =>
        IF call.command.type \in CommandKinds
        THEN /\ call.handlers = <<"On" \o call.command.type>>
             /\ call.raised = ""
             /\ call.result = Accept(call.dialect, call.command, call.unique_id)
        ELSE /\ call.handlers = <<>>
             /\ call.raised = "No handler for command type: '" \o call.command.type \o "'"

C21_Witness ==
    /\ call.op = "Accept"
    /\ call.dialect = "Batch"
    /\ call.command.type = "Augment"
    /\ call.handlers = <<"OnAugment">>
    /\ call.result # <<>>

\* the renderings of a command list in a dialect, one after the other
RECURSIVE Renderings(_, _, _)
Renderings(dialect, commands, n) ==
    LET Rendering(result) == IF result = <<>> THEN "" ELSE result[1]
    IN  IF n = 0 THEN ""
        ELSE Renderings(dialect, commands, n - 1)
                 \o Rendering(Accept(dialect, commands[n], UniqueId(1, n)))

C23_ManifestOrder ==
    call.op = "GenerateManifest" =>
        LET tools == call.result.tools
            HasConfiguration(n) ==
                GenerateToolInfos(Join(ToolsDir, n), NoFilter, NoneType, NoneType,
                                  TRUE, TRUE).out # <<>>
            Descending(configurations) ==
                \A i, j \in DOMAIN configurations :
                    i < j =>
                        IF configurations[i].version = None
                        THEN configurations[j].version = None
                        ELSE /\ configurations[j].version # None
                             /\ ~VersionLess(configurations[i].version,
                                             configurations[j].version)
        IN  /\ call.result.raised = ""
            /\ \A n \in Range(AllNames) :
                  (\E k \in DOMAIN tools : tools[k].name = n)
                  <=> /\ Join(ToolsDir, n) \in dirs
                      /\ n \notin call.exclude_tools
                      /\ call.include_tools = {} \/ n \in call.include_tools
                      /\ HasConfiguration(n)
            /\ \A k \in DOMAIN tools :
                  /\ k > 1 => StrLess(tools[k - 1].name, tools[k].name)
                  /\ tools[k].configurations # <<>>
                  /\ Descending(tools[k].configurations)

\* C23's case: the directory lists T2 before T1, and the manifest holds both
C23_Witness ==
    /\ call.op = "GenerateManifest"
    /\ listRev
    /\ {Join(ToolsDir, "T1"), Join(ToolsDir, "T2")} \subseteq dirs
    /\ Len(call.result.tools) = 2
    /\ call.result.tools[1].name = "T1"

\* the configuration fields an encoding stands for
DecodedVersion(value) == IF value = <<>> THEN <<>> ELSE Coerce(value[1]).version
DecodedAttribute(value, kind) ==
    IF value = <<>> THEN [kind |-> "None", name |-> ""]
    ELSE IF value[1] = "Generic" THEN [kind |-> "str", name |-> "Generic"]
    ELSE [kind |-> kind, name |-> value[1]]
DecodedPath(value) == Split(value[1], "/")

\* C24: the manifest encoding of a configuration maps version to its string
\* or to null, operating_system and architecture to the member's name, to
\* "Generic" or to null, and both directories to forward-slash relative
\* paths; every one of these fields is recovered from the encoding, and two
\* configurations that differ in one of them have different encodings.
C24_EncodingLosesNothing ==
    call.op = "_ToolConfigurationToDict" =>
        LET config == call.config
            encoded == call.result
            Fields(c) == <<c.version, c.operating_system, c.architecture,
                           c.versioned_directory, c.binary_directory>>
        IN  /\ DecodedVersion(encoded.version) = config.version
            /\ DecodedAttribute(encoded.operating_system, "OperatingSystemType")
                   = config.operating_system
            /\ DecodedAttribute(encoded.architecture, "ArchitectureType") = config.architecture
            /\ DecodedPath(encoded.versioned_directory) = config.versioned_directory
            /\ DecodedPath(encoded.binary_directory) = config.binary_directory
            /\ encoded.version = <<>> <=> config.version = <<>>
            /\ encoded.operating_system = <<"Generic">>
                   <=> config.operating_system = [kind |-> "str", name |-> "Generic"]
            /\ \A other \in Configurations :
                  Fields(other) # Fields(config)
                  => _ToolConfigurationToDict(other) # encoded

\* C24's case: a configuration with a version, the Generic sentinel as its
\* operating system and no architecture
C24_Witness ==
    /\ call.op = "_ToolConfigurationToDict"
    /\ call.config.version = <<1, 10, 0>>
    /\ call.config.operating_system = [kind |-> "str", name |-> "Generic"]
    /\ call.config.architecture = [kind |-> "None", name |-> ""]
    /\ call.result.version = <<"1.10.0">>
    /\ call.result.operating_system = <<"Generic">>
    /\ call.result.architecture = <<>>
    /\ call.result.binary_directory = <<"T1/1.9/Generic/bin">>

\* the path components a ToolInfo's attributes stand for, in the order
\* version, OS, architecture: <<"version">> for a version, the name otherwise
AttributeComponents(tool_info) ==
    (IF tool_info.version = None THEN <<>> ELSE <<"version">>)
        \o (IF tool_info.operating_system = NoneType THEN <<>>
            ELSE <<tool_info.operating_system.name>>)
        \o (IF tool_info.architecture = NoneType THEN <<>>
            ELSE <<tool_info.architecture.name>>)

\* versioned_directory is root_directory extended by one component for each
\* attribute that is present, in the order version, OS, architecture
ExtendsRootByAttributes(tool_info) ==
    LET relative == RelativeTo(tool_info.versioned_directory, tool_info.root_directory)
        components == AttributeComponents(tool_info)
    IN  /\ Len(tool_info.versioned_directory) >= Len(tool_info.root_directory)
        /\ SubSeq(tool_info.versioned_directory, 1, Len(tool_info.root_directory))
               = tool_info.root_directory
        /\ Len(relative) = Len(components)
        /\ \A i \in DOMAIN components :
               IF components[i] = "version"
               THEN Coerce(RemovePrefix(relative[i], "v")).version = tool_info.version
               ELSE relative[i] = components[i]

\* C25: every ToolInfo that GenerateToolInfos yields has a versioned_directory
\* that is root_directory extended by exactly one path component for each
\* attribute that is present, in the order version, OS, architecture (the
\* two are equal when all three are absent); GeneratePotentialEnvFiles on it
\* raises neither IndexError nor AssertionError (at most four tiers), and its
\* last candidate lies directly in versioned_directory.
C25_VersionedDirectoryDepth ==
    call.op = "GenerateToolInfos"
    => \A i \in DOMAIN call.result.out :
          LET tool_info == call.result.out[i]
              candidates == GeneratePotentialEnvFiles(tool_info, ".env")
          IN  /\ ExtendsRootByAttributes(tool_info)
              /\ Len(RelativeTo(tool_info.versioned_directory, tool_info.root_directory)) + 1 <= 4
              /\ candidates.err = ""
              /\ candidates.out # <<>>
              /\ PathParent(candidates.out[Len(candidates.out)]) = tool_info.versioned_directory

\* C25's case: one call yields a ToolInfo with all three attributes, three
\* components below its root, and the call with nothing below the root
C25_Witness ==
    /\ call.op = "GenerateToolInfos"
    /\ \E i \in DOMAIN call.result.out :
          /\ call.result.out[i].version # None
          /\ call.result.out[i].operating_system # NoneType
          /\ call.result.out[i].architecture # NoneType
          /\ Len(call.result.out[i].versioned_directory)
                 = Len(call.result.out[i].root_directory) + 3
          /\ Len(GeneratePotentialEnvFiles(call.result.out[i], ".env").out) = 15

\* C25's other case: a ToolInfo without attributes, whose versioned_directory
\* is its root_directory
C25_WitnessBare ==
    /\ call.op = "GenerateToolInfos"
    /\ \E i \in DOMAIN call.result.out :
          /\ AttributeComponents(call.result.out[i]) = <<>>
          /\ call.result.out[i].versioned_directory = call.result.out[i].root_directory

\* the directory the OS level selects in versioned_dir under a filter, None
\* on a miss: versioned_dir itself when it holds no OS directory, else the
\* directory named after the filter, else "Generic" when that is allowed
SelectedOperatingSystemDir(versioned_dir, dir_filter, allow_generic) ==
    IF \A n \in {"Linux", "MacOS", "Windows", "Generic"} : ~IsDir(Join(versioned_dir, n))
    THEN versioned_dir
    ELSE IF IsDir(Join(versioned_dir, dir_filter.name)) THEN Join(versioned_dir, dir_filter.name)
    ELSE IF allow_generic /\ IsDir(Join(versioned_dir, "Generic"))
    THEN Join(versioned_dir, "Generic")
    ELSE None

\* the architecture level misses in operating_system_dir: it holds
\* architecture directories, but neither the one named after the filter nor,
\* when that is allowed, "Generic"
ArchitectureMiss(operating_system_dir, dir_filter, allow_generic) ==
    /\ dir_filter # NoneType
    /\ \E n \in {"x64", "x86", "ARM64", "ARM", "Generic"} : IsDir(Join(operating_system_dir, n))
    /\ ~IsDir(Join(operating_system_dir, dir_filter.name))
    /\ ~(allow_generic /\ IsDir(Join(operating_system_dir, "Generic")))

\* the first (with a version filter: the only) directory of the version level
FirstVersion(c) == _GenerateVersionedDirs(PathName(c.tool_dir), c.tool_dir, c.version_filter)

\* C26: resolution never goes back a level.  With an OS filter, the first
\* directory the version level yields (the only one under "latest" or an
\* explicit version) decides the call: a miss of the OS level in it, or a miss
\* of the architecture level in the OS directory selected in it, raises the
\* not-found error of that level and directory and nothing is yielded,
\* whatever the "Generic" OS directory next to the selected one or the other
\* versions hold.
C26_NoBacktracking ==
    (/\ call.op = "GenerateToolInfos"
     /\ call.operating_system_filter # NoneType
     /\ FirstVersion(call).err = ""
     /\ FirstVersion(call).out # <<>>)
    => LET versioned_dir == FirstVersion(call).out[1].dir
           selected == SelectedOperatingSystemDir(versioned_dir, call.operating_system_filter,
                                                  call.allow_generic_operating_system)
       IN  /\ selected = None
              => call.result = Raise(PlatformNotFoundMsg(call.operating_system_filter.name,
                                                         PathName(call.tool_dir), versioned_dir))
           /\ (/\ selected # None
               /\ ArchitectureMiss(selected, call.architecture_filter,
                                   call.allow_generic_architecture))
              => call.result = Raise(PlatformNotFoundMsg(call.architecture_filter.name,
                                                         PathName(call.tool_dir), selected))

\* C26's case: the directory "Linux" matches the filter exactly and holds no
\* directory for x64, the directory "Generic" next to it holds one, and the
\* call raises for "Linux"
C26_Witness ==
    /\ call.op = "GenerateToolInfos"
    /\ call.operating_system_filter = OperatingSystemType("Linux")
    /\ call.allow_generic_operating_system
    /\ call.architecture_filter = ArchitectureType("x64")
    /\ FirstVersion(call).err = ""
    /\ FirstVersion(call).out # <<>>
    /\ LET versioned_dir == FirstVersion(call).out[1].dir
       IN  /\ IsDir(Join(versioned_dir, "Linux"))
           /\ ArchitectureMiss(Join(versioned_dir, "Linux"), call.architecture_filter,
                               call.allow_generic_architecture)
           /\ IsDir(Join(Join(versioned_dir, "Generic"), "x64"))
           /\ call.result.out = <<>>
           /\ call.result.err = PlatformNotFoundMsg("x64", "T1", Join(versioned_dir, "Linux"))

\* C26's other case: "latest" selects 1.10, the OS level misses in it, and the
\* call raises although the directory of 1.9 resolves under the same filters
C26_WitnessVersion ==
    /\ call.op = "GenerateToolInfos"
    /\ call.version_filter = Latest
    /\ call.operating_system_filter # NoneType
    /\ FirstVersion(call).err = ""
    /\ FirstVersion(call).out # <<>>
    /\ FirstVersion(call).out[1].version = <<1, 10, 0>>
    /\ call.result.out = <<>>
    /\ call.result.err # ""
    /\ LET other == GenerateToolInfos(call.tool_dir, Pinned(<<1, 9, 0>>),
                                      call.operating_system_filter, call.architecture_filter,
                                      call.allow_generic_operating_system,
                                      call.allow_generic_architecture)
       IN  other.err = "" /\ other.out # <<>>

\* the text with which a dialect's rendering of Augment begins the new value
\* of the variable, and the text with which it refers to the old one
AssignmentOpening(dialect, name) ==
    CASE dialect = "Bash" -> "export " \o name \o "=\""
      [] dialect = "Batch" -> "SET " \o name \o "="
      [] dialect = "PowerShell" -> "$env:" \o name \o " = \""

VariableReference(dialect, name) ==
    CASE dialect = "Bash" -> "${" \o name \o "}"
      [] dialect = "Batch" -> "%" \o name \o "%"
      [] dialect = "PowerShell" -> "$env:" \o name

\* where a rendering of Augment puts the new value: "after" the old content
\* of the variable, "before" it, or "?" when the assignment is neither
Placement(dialect, command, text) ==
    LET opening == AssignmentOpening(dialect, command.name)
        reference == VariableReference(dialect, command.name)
        separator == IF dialect = "Bash" THEN ":" ELSE ";"
        At(start) ==
            IF start = 0 THEN "?"
            ELSE IF StartsWithAt(text, start + Len(opening),
                                 reference \o separator \o command.value_or_values)
            THEN "after"
            ELSE IF StartsWithAt(text, start + Len(opening),
                                 command.value_or_values \o separator \o reference)
            THEN "before"
            ELSE "?"
    IN  At(Find(text, opening, 1))

\* C27: the Bash, Batch and PowerShell renderings of an Augment command put
\* the new value on the same side of the variable's old content (after it in
\* all three, or before it in all three), with append_values False and True.
C27_AugmentPlacementAgrees ==
    (/\ call.op = "Accept"
     /\ call.command.type = "Augment")
    => /\ Placement(call.dialect, call.command, call.result[1]) \in {"after", "before"}
       /\ \A other \in Dialects :
              Placement(other, call.command, Accept(other, call.command, call.unique_id)[1])
                  = Placement(call.dialect, call.command, call.result[1])

\* C27's case: with append_values set the PowerShell rendering puts the value
\* after the old content, the Bash and Batch renderings put it before
C27_Witness ==
    /\ call.op = "Accept"
    /\ call.command.type = "Augment"
    /\ call.command.append_values
    /\ call.dialect = "PowerShell"
    /\ Placement("PowerShell", call.command, call.result[1]) = "after"
    /\ Placement("Bash", call.command, Accept("Bash", call.command, call.unique_id)[1]) = "before"
    /\ Placement("Batch", call.command, Accept("Batch", call.command, call.unique_id)[1]) = "before"

\* the same with append_values not set: after the old content in Bash and
\* Batch, before it in PowerShell
C27_WitnessDefault ==
    /\ call.op = "Accept"
    /\ call.command.type = "Augment"
    /\ ~call.command.append_values
    /\ call.dialect = "Bash"
    /\ Placement("Bash", call.command, call.result[1]) = "after"
    /\ Placement("Batch", call.command, Accept("Batch", call.command, call.unique_id)[1]) = "after"
    /\ Placement("PowerShell", call.command,
                 Accept("PowerShell", call.command, call.unique_id)[1]) = "before"

\* what Lib.GetToolInfos and ToolInfo.GetAllToolInfos do with the arguments
\* of the recorded call (no_generic_* being the negation of allow_generic_*)
LibOutcome ==
    IF call.op = "GetToolInfos" THEN call.result
    ELSE GetToolInfos(ToolsDir, call.include_tools, call.exclude_tools, call.tool_versions,
                      call.operating_system, call.architecture,
                      ~call.allow_generic_operating_systems, ~call.allow_generic_architectures)

ToolInfoOutcome ==
    IF call.op = "GetAllToolInfos" THEN call.result
    ELSE GetAllToolInfos(ToolsDir, call.include_tools, call.exclude_tools, call.tool_versions,
                         call.operating_system, call.architecture,
                         ~call.no_generic_operating_systems, ~call.no_generic_architectures)

\* neither function reported a tool it could not resolve
NoToolFails ==
    /\ LibOutcome.dm.result = 0
    /\ ToolInfoOutcome.dm.result = 0
    /\ ToolInfoOutcome.raised = ""

\* C28: when no tool fails to resolve, Lib.GetToolInfos and
\* ToolInfo.GetAllToolInfos, called with the same tools directory, include
\* and exclude sets, pinned versions, platform and generic-fallback settings,
\* return the same tools in the same order, each with the same
\* root_directory, versioned_directory and binary_directory.
C28_LibAgreesWithToolInfo ==
    (/\ call.op \in {"GetToolInfos", "GetAllToolInfos"}
     /\ NoToolFails)
    => /\ Len(LibOutcome.results) = Len(ToolInfoOutcome.results)
       /\ \A i \in DOMAIN LibOutcome.results :
              /\ LibOutcome.results[i].name = ToolInfoOutcome.results[i].name
              /\ LibOutcome.results[i].root_directory = ToolInfoOutcome.results[i].root_directory
              /\ LibOutcome.results[i].versioned_directory
                     = ToolInfoOutcome.results[i].versioned_directory
              /\ LibOutcome.results[i].binary_directory
                     = ToolInfoOutcome.results[i].binary_directory

\* the same on one tool, three levels deep: the version, the OS and the
\* architecture directory are selected, and "bin" inside them
C28_WitnessDeep ==
    /\ mode = "levels"
    /\ call.op = "GetToolInfos"
    /\ NoToolFails
    /\ Len(call.result.results) = 1
    /\ Len(call.result.results[1].versioned_directory)
           = Len(call.result.results[1].root_directory) + 3

\* C28's case: a call of Lib.GetToolInfos without a failure that returns a
\* tool with two versions, of which the higher one is selected
C28_Witness ==
    /\ mode = "catalog"
    /\ call.op = "GetToolInfos"
    /\ NoToolFails
    /\ \E i \in DOMAIN call.result.results :
          /\ call.result.results[i].versioned_directory
                 = Join(call.result.results[i].root_directory, "1.10")
          /\ IsDir(Join(call.result.results[i].root_directory, "1.9"))
          /\ ToolInfoOutcome.results[i].version = <<1, 10, 0>>

\* the two functions also fail on the same inputs
LibFailsWhenToolInfoFails ==
    call.op \in {"GetToolInfos", "GetAllToolInfos"}
    => (LibOutcome.dm.result = 0 <=> ToolInfoOutcome.dm.result = 0)

\* no path occurs at two positions of the sequence
NoRepetition(paths) == \A i, j \in DOMAIN paths : i # j => paths[i] # paths[j]

\* C29: GeneratePotentialEnvFiles yields no path twice for a ToolInfo that
\* GenerateToolInfos produces, whatever its version (present or absent), OS
\* (a member, "Generic" or absent) and architecture (a member, "Generic" or
\* absent).
C29_NoCandidateTwice ==
    call.op = "GeneratePotentialEnvFiles"
    => /\ call.result.err = ""
       /\ NoRepetition(call.result.out)

\* C29's case: the OS and the architecture are both "Generic"; the root tier
\* holds <name>-Generic<ext> once for the OS and once for the architecture
C29_Witness ==
    /\ call.op = "GeneratePotentialEnvFiles"
    /\ call.self.operating_system = Generic
    /\ call.self.architecture = Generic
    /\ call.self.versioned_directory
           = Join(Join(call.self.root_directory, "Generic"), "Generic")
    /\ \E i, j \in DOMAIN call.result.out :
          /\ i < j
          /\ call.result.out[i] = Join(call.self.root_directory, "T1-Generic.env")
          /\ call.result.out[j] = call.result.out[i]

\* every other ToolInfo is free of repetitions
NoCandidateTwiceUnlessBothGeneric ==
    (/\ call.op = "GeneratePotentialEnvFiles"
     /\ ~(call.self.operating_system = Generic /\ call.self.architecture = Generic))
    => NoRepetition(call.result.out)

\* the subdirectories of working_dir whose name coerces to version, in
\* listing order
DirectoriesOf(working_dir, version) ==
    SelectSeq(IterDir(working_dir),
              LAMBDA p : /\ IsDir(p)
                         /\ Coerce(RemovePrefix(PathName(p), "v")).ok
                         /\ Coerce(RemovePrefix(PathName(p), "v")).version = version)

\* the versions the directory names of the model coerce to
ModelVersions == {<<1, 9, 0>>, <<1, 10, 0>>}

\* the filter selects version in working_dir: it names it, or it is "latest"
\* and no subdirectory has a higher version
Selects(dir_filter, working_dir, version) ==
    \/ dir_filter = Pinned(version)
    \/ /\ dir_filter = Latest
       /\ \A higher \in ModelVersions :
              VersionLess(version, higher) => DirectoriesOf(working_dir, higher) = <<>>

\* C30: when two subdirectories coerce to the same version, a "latest" or
\* explicit filter that selects that version yields exactly one directory,
\* the colliding one that is listed last; without a filter every colliding
\* directory is yielded, once.
C30_CollidingVersions ==
    call.op = "_GenerateVersionedDirs"
    => \A version \in ModelVersions :
          LET colliding == DirectoriesOf(call.working_dir, version)
              yielded == SelectSeq(call.result.out, LAMBDA item : item.version = version)
          IN  Len(colliding) >= 2
              => /\ Selects(call.dir_filter, call.working_dir, version)
                    => call.result = Yield(<<[dir |-> colliding[Len(colliding)],
                                              version |-> version]>>)
                 /\ call.dir_filter = NoFilter
                    => /\ call.result.err = ""
                       /\ Len(yielded) = Len(colliding)
                       /\ {yielded[i].dir : i \in DOMAIN yielded} = Range(colliding)

\* C30's case: "v1.9.0" is listed before "1.9", both coerce to 1.9.0, and
\* "latest" yields "1.9" alone
C30_Witness ==
    /\ call.op = "_GenerateVersionedDirs"
    /\ call.dir_filter = Latest
    /\ DirectoriesOf(call.working_dir, <<1, 9, 0>>)
           = <<Join(call.working_dir, "v1.9.0"), Join(call.working_dir, "1.9")>>
    /\ call.result.out = <<[dir |-> Join(call.working_dir, "1.9"), version |-> <<1, 9, 0>>]>>

\* the same without a filter: both directories are yielded
C30_WitnessNoFilter ==
    /\ call.op = "_GenerateVersionedDirs"
    /\ call.dir_filter = NoFilter
    /\ Len(DirectoriesOf(call.working_dir, <<1, 9, 0>>)) = 2
    /\ Len(call.result.out) = 2
    /\ call.result.out[1].dir # call.result.out[2].dir

====
